---------------------------- MODULE Spec2Model ----------------------------
(***************************************************************************)
(* A model of the binary codec and cross-field validation layer of         *)
(* ibm_quantum_schemas: TensorModel (tensor_model.py), the QPY circuit     *)
(* envelopes (qpy_model.py, typed_qpy_circuit_model.py and                 *)
(* noise_learner_v2/version_0_1_dev/models.py) and the executor program    *)
(* items (executor/version_0_1 and version_0_2 models.py).                 *)
(*                                                                         *)
(* Each component has its own specification over its own variables:        *)
(*   SpecTensor    TensorModel construction, from_numpy, to_numpy          *)
(*   SpecEnvelope  construction of the circuit envelopes from wire fields  *)
(*   SpecItem      CircuitItemModel / SamplexItemModel construction        *)
(*   SpecProgram   QuantumProgramModel construction                        *)
(*   SpecCache     calls to to_quantum_circuit / to_samplex, one at a time *)
(*   SpecCacheRace two callers whose calls interleave step by step         *)
(*   SpecSamplex   SamplexModel construction and decoding                  *)
(*   SpecF64       F64TensorModel construction and from_numpy              *)
(*   SpecZne       ZneOptionsModel construction                            *)
(*   SpecFan       items of one program validated with interleaved steps   *)
(***************************************************************************)
EXTENDS Integers, Sequences, FiniteSets, TLC

VARIABLES
    \* ---- TensorModel ----
    op,      \* the last tensor operation: "init", "wire", "numpy", "truncate", "to_numpy"
    tm,      \* the fields (data, shape, dtype) handed to the TensorModel constructor
    res,     \* the outcome of that construction: "ok" or an error kind
    prev,    \* the record whose data was truncated (op = "truncate")
    arr,     \* the array handed to from_numpy (op = "numpy")
    out,     \* the outcome of to_numpy on the constructed record
    out2,    \* the outcome of a second to_numpy on the same record
    \* ---- circuit envelopes ----
    eop,     \* the last envelope construction: "init", "qpy", "typed"
    ein,     \* the wire fields handed to the envelope constructor
    eres,    \* its outcome: "ok" or an error kind
    einst,   \* the instance it returned (tag-variant classes), if any
    \* ---- executor program items ----
    iop,     \* the last item operation
    qenv,    \* the QpyModel held by the item: circuit_b64, qpy_version, _circuit
    senv,    \* the SamplexModel held by the item: samplex_json, ssv, _samplex
    item,    \* the fields handed to the item constructor
    ires,    \* its outcome
    iload,   \* whether that construction invoked the circuit decoder
    \* ---- executor quantum program ----
    pop,     \* the last program operation
    prog,    \* the fields handed to QuantumProgramModel
    pres,    \* its outcome
    \* ---- one envelope and its cache slot ----
    cop,     \* the last operation on the envelope
    cenv,    \* the envelope: its fields and its slot _circuit / _samplex (an object id, 0: unset)
    heap,    \* the objects created so far: heap[id] is what object id holds
    decodes, \* how many times the decoder (qpy load / samplex_from_json) was invoked
    clast,   \* the last completed to_quantum_circuit / to_samplex call
    calls,   \* the calls in progress, one per caller
    \* ---- SamplexModel from wire text ----
    sop,     \* the last SamplexModel construction
    sin,     \* the fields handed to it
    sres,    \* its outcome
    strace,  \* the validation steps that ran, in order
    fop,     \* the last F64TensorModel construction: "init", "wire", "numpy"
    farr,    \* the array handed to F64TensorModel.from_numpy
    ftm,     \* the fields handed to the F64TensorModel constructor
    fres,    \* its outcome
    zop,     \* the last ZneOptionsModel construction
    zin,     \* the fields handed to ZneOptionsModel
    zres,    \* its outcome, the extrapolator its error names, and the instance
    vop,     \* whether the items have been handed to their validators
    vitem,   \* the items: type and shape of circuit_arguments
    vin,     \* the envelopes of each item as they were handed over
    venv,    \* the envelopes of each item now
    vrun     \* each item's cross_validate: position, local values, outcome

tensorVars == <<op, tm, res, prev, arr, out, out2>>
envelopeVars == <<eop, ein, eres, einst>>
itemVars == <<iop, qenv, senv, item, ires, iload>>
programVars == <<pop, prog, pres>>
cacheVars == <<cop, cenv, heap, decodes, clast, calls>>
samplexVars == <<sop, sin, sres, strace>>
f64Vars == <<fop, farr, ftm, fres>>
zneVars == <<zop, zin, zres>>
fanVars == <<vop, vitem, vin, venv, vrun>>
vars == <<tensorVars, envelopeVars, itemVars, programVars, cacheVars, samplexVars,
         f64Vars,
         zneVars,
         fanVars>>

(***************************************************************************)
(* Bounds of the model.                                                    *)
(***************************************************************************)
MaxRank == 4          \* arrays handed to from_numpy have rank 0..MaxRank
MaxDim == 3           \* and every dimension in 0..MaxDim
MaxElemsBool == 9     \* at most this many elements in a bool array
MaxElemsU8 == 4       \* ... in a uint8 array
MaxElemsF64 == 2      \* ... in a float64 array
MaxWireLen == 5       \* wire `data` strings have at most this many characters
MaxWireRank == 1      \* wire `shape` lists have at most this many entries
MaxWireDim == 3       \* with entries in -1..MaxWireDim

(***************************************************************************)
(* Generic helpers.                                                        *)
(***************************************************************************)
RECURSIVE Prod(_)
\* math.prod / np.prod of a shape; the empty product is 1.
Prod(s) == IF s = <<>> THEN 1 ELSE Head(s) * Prod(Tail(s))

\* math.ceil(a / b) for b > 0 (\div rounds toward minus infinity).
CeilDiv(a, b) == -((-a) \div b)

RECURSIVE Flatten(_)
Flatten(ss) == IF ss = <<>> THEN <<>> ELSE Head(ss) \o Flatten(Tail(ss))

SeqsUpTo(S, n) == UNION {[1..k -> S] : k \in 0..n}

(***************************************************************************)
(* Base64.  A character of `data` is a number: 0..63 is the alphabet       *)
(* character with that sextet value, PadCh is '=', JunkCh is any           *)
(* character outside the alphabet (a line break, say).                     *)
(***************************************************************************)
PadCh == 64
JunkCh == 65

\* pybase64.b64encode: three bytes become four alphabet characters; a last
\* group of one or two bytes is padded with '=' to four characters.
RECURSIVE B64Encode(_)
B64Encode(b) ==
    IF Len(b) = 0 THEN <<>>
    ELSE IF Len(b) = 1 THEN
        <<b[1] \div 4, (b[1] % 4) * 16, PadCh, PadCh>>
    ELSE IF Len(b) = 2 THEN
        <<b[1] \div 4, (b[1] % 4) * 16 + (b[2] \div 16), (b[2] % 16) * 4, PadCh>>
    ELSE
        <<b[1] \div 4, (b[1] % 4) * 16 + (b[2] \div 16),
          (b[2] % 16) * 4 + (b[3] \div 64), b[3] % 64>>
        \o B64Encode(SubSeq(b, 4, Len(b)))

\* pybase64.b64decode(s) with validate=False, the decoder to_numpy uses:
\* characters outside the alphabet are discarded, '=' is skipped unless it
\* completes the padding of a group that has two or three characters (then
\* decoding stops), and a group left incomplete at the end is an error.
\* i: next character, q: position in the group, pads: '=' seen since the
\* last alphabet character, left: bits carried over, acc: bytes so far.
RECURSIVE A2B(_, _, _, _, _, _)
A2B(s, i, q, pads, left, acc) ==
    IF i > Len(s) THEN [ok |-> q = 0, bytes |-> acc]
    ELSE IF s[i] = PadCh THEN
        IF q >= 2 /\ q + pads + 1 >= 4 THEN [ok |-> TRUE, bytes |-> acc]
        ELSE A2B(s, i + 1, q, IF q >= 2 THEN pads + 1 ELSE pads, left, acc)
    ELSE IF s[i] > PadCh THEN A2B(s, i + 1, q, pads, left, acc)
    ELSE IF q = 0 THEN A2B(s, i + 1, 1, 0, s[i], acc)
    ELSE IF q = 1 THEN
        A2B(s, i + 1, 2, 0, s[i] % 16, Append(acc, left * 4 + (s[i] \div 16)))
    ELSE IF q = 2 THEN
        A2B(s, i + 1, 3, 0, s[i] % 4, Append(acc, left * 16 + (s[i] \div 4)))
    ELSE A2B(s, i + 1, 0, 0, 0, Append(acc, left * 64 + s[i]))

B64Decode(s) == A2B(s, 1, 0, 0, 0, <<>>)

(***************************************************************************)
(* TensorModel.                                                            *)
(***************************************************************************)
Dtypes == {"f64", "bool", "u8"}

\* _ELEM_SIZE_LOOKUP = {"f64": 8, "u8": 1, "bool": 0.125}, in eighths of a byte.
ElemSizeEighths(dtype) ==
    CASE dtype = "f64" -> 64
      [] dtype = "u8" -> 8
      [] dtype = "bool" -> 1

\* self.data[-2:].count("=")
PadCount(data) ==
    Cardinality({i \in 1..Len(data) : i > Len(data) - 2 /\ data[i] = PadCh})

\* A variant of LenData that rounds the number of four-character groups up.
LenDataRoundedUp(data) == ((Len(data) + 3) \div 4) * 3 - PadCount(data)

\* len_data = (len(self.data) // 4) * 3 - self.data[-2:].count("=")
LenData(data) == (Len(data) \div 4) * 3 - PadCount(data)

\* math.ceil(math.prod(self.shape) * elem_size)
ExpectedBytes(shape, dtype) == CeilDiv(Prod(shape) * ElemSizeEighths(dtype), 8)

\* check_sizes, run by every construction of a TensorModel.
CheckSizes(data, shape, dtype) ==
    IF ExpectedBytes(shape, dtype) /= LenData(data) THEN "MalformedTensor" ELSE "ok"

\* np.packbits(array.astype(np.uint8), bitorder="little"): eight values per
\* byte, the first value in the least significant bit, zero bits as padding.
\* A variant of PackBits that packs most-significant-bit first.
RECURSIVE PackBitsBig(_)
PackBitsBig(bits) ==
    IF Len(bits) = 0 THEN <<>>
    ELSE LET n == IF Len(bits) < 8 THEN Len(bits) ELSE 8
             Byte[k \in 0..n] ==
                 IF k = 0 THEN 0 ELSE Byte[k - 1] + bits[k] * 2 ^ (8 - k)
         IN <<Byte[n]>> \o PackBitsBig(SubSeq(bits, n + 1, Len(bits)))

RECURSIVE PackBits(_)
PackBits(bits) ==
    IF bits = <<>> THEN <<>>
    ELSE LET n == IF Len(bits) < 8 THEN Len(bits) ELSE 8
             RECURSIVE Val(_)
             Val(k) == IF k > n THEN 0 ELSE bits[k] + 2 * Val(k + 1)
         IN <<Val(1)>> \o PackBits(SubSeq(bits, n + 1, Len(bits)))

\* np.unpackbits(..., bitorder="little"): eight values per byte.
RECURSIVE UnpackBits(_)
UnpackBits(bytes) ==
    IF bytes = <<>> THEN <<>>
    ELSE LET b == Head(bytes)
             RECURSIVE Bit(_, _)
             Bit(v, k) == IF k = 0 THEN v % 2 ELSE Bit(v \div 2, k - 1)
         IN [k \in 1..8 |-> Bit(b, k - 1)] \o UnpackBits(Tail(bytes))

\* A float64 is its IEEE-754 bit pattern, written as four 16-bit words, most
\* significant first.  astype("<f8").tobytes() emits the least significant
\* byte first.
F64Bytes(x) ==
    <<x[4] % 256, x[4] \div 256, x[3] % 256, x[3] \div 256,
      x[2] % 256, x[2] \div 256, x[1] % 256, x[1] \div 256>>

\* A variant of F64FromBytes that reads the eight bytes most significant first.
F64FromBytesBigEndian(b) ==
    <<b[2] + 256 * b[1], b[4] + 256 * b[3], b[6] + 256 * b[5], b[8] + 256 * b[7]>>

\* np.frombuffer(raw, dtype="<f8") on eight bytes.
F64FromBytes(b) ==
    <<b[7] + 256 * b[8], b[5] + 256 * b[6], b[3] + 256 * b[4], b[1] + 256 * b[2]>>

\* array.tobytes() of the three supported element types (C order: `flat`).
ToBytes(dtype, flat) ==
    CASE dtype = "f64" -> Flatten([k \in 1..Len(flat) |-> F64Bytes(flat[k])])
      [] dtype = "bool" -> PackBits(flat)
      [] dtype = "u8" -> flat

NoTensor == [data |-> <<>>, shape |-> <<>>, dtype |-> "none"]
NoArray == [dtype |-> "none", shape |-> <<>>, flat |-> <<>>]
NoOut == [status |-> "none", dtype |-> "none", shape |-> <<>>, flat |-> <<>>]

\* to_numpy: decode the text, reinterpret the bytes, reshape.  frombuffer
\* fails when the byte count is no multiple of the element size, reshape
\* when the element count is not the product of the shape (a single -1
\* entry is inferred by reshape).
Reshapable(n, shape) ==
    \/ Prod(shape) = n /\ \A k \in 1..Len(shape) : shape[k] >= 0
    \/ /\ Cardinality({k \in 1..Len(shape) : shape[k] < 0}) = 1
       /\ \A k \in 1..Len(shape) : shape[k] >= -1
       /\ LET rest == Prod([k \in 1..Len(shape) |->
                               IF shape[k] < 0 THEN 1 ELSE shape[k]])
          IN IF rest = 0 THEN FALSE ELSE n % rest = 0

ToNumpy(t) ==
    LET raw == B64Decode(t.data)
        err == [status |-> "error", dtype |-> t.dtype, shape |-> <<>>, flat |-> <<>>]
        give(flat) ==
            IF Reshapable(Len(flat), t.shape)
            THEN [status |-> "ok", dtype |-> t.dtype, shape |-> t.shape, flat |-> flat]
            ELSE err
    IN IF ~raw.ok THEN err
       ELSE CASE t.dtype = "f64" ->
                   IF Len(raw.bytes) % 8 /= 0 THEN err
                   ELSE give([k \in 1..(Len(raw.bytes) \div 8) |->
                                F64FromBytes(SubSeq(raw.bytes, 8 * k - 7, 8 * k))])
              [] t.dtype = "bool" ->
                   LET total == Prod(t.shape)
                       bits == UnpackBits(raw.bytes)
                       stop == IF total >= 0
                               THEN (IF total < Len(bits) THEN total ELSE Len(bits))
                               ELSE (IF Len(bits) + total > 0 THEN Len(bits) + total ELSE 0)
                   IN give(SubSeq(bits, 1, stop))
              [] t.dtype = "u8" -> give(raw.bytes)

\* A variant of ToNumpyCall after which the record's data is used up.
ToNumpyCallConsuming(t) ==
    [array |-> ToNumpy(t), self |-> [t EXCEPT !.data = <<>>]]

\* One call of to_numpy: the array returned (or the failure) and the record
\* afterwards; to_numpy assigns nothing to self.
ToNumpyCall(t) ==
    [array |-> ToNumpy(t), self |-> t]

\* The else branch of from_numpy.  Building the message of the ValueError
\* evaluates cls.dtype.__annotation__, and the class has no attribute dtype
\* (a pydantic field declared by its annotation alone is not a class
\* attribute), so the branch ends in AttributeError before the raise.
UnexpectedDtype(array_dtype) == "AttributeError"

\* TensorModel.from_numpy(array): the record handed to the constructor (none
\* when the element type is unsupported) and the outcome.
FromNumpy(array) ==
    IF array.dtype \in Dtypes
    THEN [tm |-> [data |-> B64Encode(ToBytes(array.dtype, array.flat)),
                  shape |-> array.shape, dtype |-> array.dtype],
          status |-> CheckSizes(B64Encode(ToBytes(array.dtype, array.flat)),
                                array.shape, array.dtype)]
    ELSE [tm |-> NoTensor, status |-> UnexpectedDtype(array.dtype)]

(***************************************************************************)
(* The inputs of the tensor operations.                                    *)
(***************************************************************************)
\* 0.1 = 0x3FB999999999999A and -0.0 = 0x8000000000000000.
F64Vals == {<<16313, 39321, 39321, 39322>>, <<32768, 0, 0, 0>>}
U8Vals == {0, 77, 255}
BoolVals == {0, 1}
I64Vals == {0, 300}
\* Bytes of packed bool tensors on the wire: 0x00, 0xA5 and 0xFF.
PackedBytes == {0, 165, 255}

ElemVals(dtype) ==
    CASE dtype = "f64" -> F64Vals
      [] dtype = "u8" -> U8Vals
      [] dtype = "bool" -> BoolVals

MaxElems(dtype) ==
    CASE dtype = "f64" -> MaxElemsF64
      [] dtype = "u8" -> MaxElemsU8
      [] dtype = "bool" -> MaxElemsBool

\* The shapes of the arrays handed to from_numpy.
ArrayShapes == SeqsUpTo(0..MaxDim, MaxRank)

\* The characters and shapes of the wire fields handed to the constructor:
\* `data: str` is any text and `shape: list[int]` any integers.
WireChars == {0, PadCh, JunkCh}
WireData == SeqsUpTo(WireChars, MaxWireLen)
WireShapes == SeqsUpTo(-1..MaxWireDim, MaxWireRank)

\* A tensor operation touches no other component.
OnlyTensor == UNCHANGED <<envelopeVars, itemVars, programVars, cacheVars, samplexVars,
        f64Vars,
        zneVars,
        fanVars>>

InitTensor ==
    /\ op = "init"
    /\ tm = NoTensor
    /\ res = "none"
    /\ prev = NoTensor
    /\ arr = NoArray
    /\ out = NoOut
    /\ out2 = NoOut

\* TensorModel(data=..., shape=..., dtype=...) on wire fields.
TensorFromWire ==
    /\ op = "init"
    /\ \E data \in WireData, shape \in WireShapes, dtype \in Dtypes :
        /\ op' = "wire"
        /\ tm' = [data |-> data, shape |-> shape, dtype |-> dtype]
        /\ res' = CheckSizes(data, shape, dtype)
        /\ prev' = NoTensor
        /\ arr' = NoArray
        /\ out' = NoOut
        /\ out2' = NoOut
        /\ OnlyTensor

\* TensorModel.from_numpy(array) for an array of a supported element type.
TensorFromNumpy ==
    /\ op = "init"
    /\ \E dtype \in Dtypes, shape \in ArrayShapes :
        /\ Prod(shape) <= MaxElems(dtype)
        /\ \E flat \in [1..Prod(shape) -> ElemVals(dtype)] :
            LET array == [dtype |-> dtype, shape |-> shape, flat |-> flat]
            IN /\ op' = "numpy"
               /\ arr' = array
               /\ tm' = FromNumpy(array).tm
               /\ res' = FromNumpy(array).status
               /\ prev' = NoTensor
               /\ out' = NoOut
               /\ out2' = NoOut
               /\ OnlyTensor

\* TensorModel.from_numpy(array) for an int64 array.
TensorFromNumpyInt64 ==
    /\ op = "init"
    /\ \E shape \in ArrayShapes :
        /\ Prod(shape) <= MaxElemsU8
        /\ \E flat \in [1..Prod(shape) -> I64Vals] :
            LET array == [dtype |-> "int64", shape |-> shape, flat |-> flat]
            IN /\ op' = "numpy"
               /\ arr' = array
               /\ tm' = FromNumpy(array).tm
               /\ res' = FromNumpy(array).status
               /\ prev' = NoTensor
               /\ out' = NoOut
               /\ out2' = NoOut
               /\ OnlyTensor

\* TensorModel(data=..., shape=[n], dtype="bool") on the canonical text of
\* any bytes, whatever the bits beyond the n-th are.
TensorFromPackedWire ==
    /\ op = "init"
    /\ \E n \in 1..MaxElemsBool :
       \E bytes \in [1..CeilDiv(n, 8) -> PackedBytes] :
        /\ op' = "wire"
        /\ tm' = [data |-> B64Encode(bytes), shape |-> <<n>>, dtype |-> "bool"]
        /\ res' = CheckSizes(B64Encode(bytes), <<n>>, "bool")
        /\ prev' = NoTensor
        /\ arr' = NoArray
        /\ out' = NoOut
        /\ out2' = NoOut
        /\ OnlyTensor

\* The last character of a constructed record's data is removed and a record
\* is constructed from the rest, with the same shape and dtype.
TensorTruncate ==
    /\ res = "ok"
    /\ Len(tm.data) > 0
    /\ LET data == SubSeq(tm.data, 1, Len(tm.data) - 1)
       IN /\ op' = "truncate"
          /\ prev' = tm
          /\ tm' = [tm EXCEPT !.data = data]
          /\ res' = CheckSizes(data, tm.shape, tm.dtype)
          /\ arr' = NoArray
          /\ out' = NoOut
          /\ out2' = NoOut
          /\ OnlyTensor

\* to_numpy() on a constructed record.
TensorToNumpy ==
    /\ res = "ok"
    /\ out.status = "none"
    /\ out' = ToNumpyCall(tm).array
    /\ tm' = ToNumpyCall(tm).self
    /\ UNCHANGED <<op, res, prev, arr, out2>>
    /\ OnlyTensor

\* to_numpy() once more on the same record.
TensorToNumpyAgain ==
    /\ res = "ok"
    /\ out.status /= "none"
    /\ out2.status = "none"
    /\ out2' = ToNumpyCall(tm).array
    /\ tm' = ToNumpyCall(tm).self
    /\ UNCHANGED <<op, res, prev, arr, out>>
    /\ OnlyTensor

NextTensor ==
    \/ TensorFromWire
    \/ TensorFromPackedWire
    \/ TensorFromNumpy
    \/ TensorFromNumpyInt64
    \/ TensorTruncate
    \/ TensorToNumpy
    \/ TensorToNumpyAgain

(***************************************************************************)
(* Circuit envelopes.  The text of an envelope (circuit_b64, __value__) is *)
(* described by what the decoders find in it:                              *)
(*   b64ok           pybase64.b64decode accepts the text                   *)
(*   zipped          the decoded bytes are a zlib stream (of QPY bytes)    *)
(*   readable        the QPY bytes hold at least FILE_HEADER_V10_SIZE      *)
(*                   bytes, so that struct.unpack yields a header          *)
(*   version         the header's qpy_version                              *)
(*   num_programs    the header's num_programs                             *)
(*   num_parameters  the number of parameters of the encoded circuit       *)
(*   loadable        qiskit.qpy.load can decode the bytes after the header *)
(***************************************************************************)
VersionMargin == 2    \* versions from 10 - VersionMargin to 18 + VersionMargin
MaxPrograms == 2      \* header program counts 0..MaxPrograms
MaxParams == 3        \* circuits have 0..MaxParams parameters

Versions == (10 - VersionMargin)..(18 + VersionMargin)

EnvelopeText(b64ok, zipped, readable, version, num_programs, num_parameters, loadable) ==
    [b64ok |-> b64ok, zipped |-> zipped, readable |-> readable, version |-> version,
     num_programs |-> num_programs, num_parameters |-> num_parameters,
     loadable |-> loadable]

\* FILE_HEADER_V10._make(struct.unpack(FILE_HEADER_V10_PACK, read(FILE_HEADER_V10_SIZE)))
ReadHeader(text) ==
    [ok |-> text.readable, qpy_version |-> text.version, num_programs |-> text.num_programs]

QpyClasses == {"QpyModel", "QpyModelV13ToV16", "QpyModelV13ToV17"}

\* A variant of QpyVersionField in which QpyModelV13ToV16 admits version 17.
QpyVersionFieldLoose(cls, v) ==
    CASE cls = "QpyModel" -> v >= 10
      [] cls = "QpyModelV13ToV16" -> v >= 13 /\ v <= 17
      [] cls = "QpyModelV13ToV17" -> v >= 13 /\ v <= 17

\* qpy_version: int = Field(ge=10), Field(ge=13, le=16), Field(ge=13, le=17)
QpyVersionField(cls, v) ==
    CASE cls = "QpyModel" -> v >= 10
      [] cls = "QpyModelV13ToV16" -> v >= 13 /\ v <= 16
      [] cls = "QpyModelV13ToV17" -> v >= 13 /\ v <= 17

\* A variant of CrossValidateQpyVersion that does not look at num_programs.
CrossValidateNoProgramCount(circuit_b64, qpy_version) ==
    IF ~circuit_b64.b64ok THEN "InvalidBase64"
    ELSE IF ~ReadHeader(circuit_b64).ok THEN "HeaderUnreadable"
    ELSE IF ReadHeader(circuit_b64).qpy_version /= qpy_version THEN "VersionMismatch"
    ELSE "ok"

\* A variant of CrossValidateQpyVersion that does not compare the versions.
CrossValidateNoVersionMatch(circuit_b64, qpy_version) ==
    IF ~circuit_b64.b64ok THEN "InvalidBase64"
    ELSE IF ~ReadHeader(circuit_b64).ok THEN "HeaderUnreadable"
    ELSE IF ReadHeader(circuit_b64).num_programs /= 1 THEN "UnexpectedProgramCount"
    ELSE "ok"

\* QpyModel.cross_validate_qpy_version: the header is read from the decoded
\* bytes as they are (circuit_b64 is not compressed).
CrossValidateQpyVersion(circuit_b64, qpy_version) ==
    IF ~circuit_b64.b64ok THEN "InvalidBase64"
    ELSE IF ~ReadHeader(circuit_b64).ok THEN "HeaderUnreadable"
    ELSE IF ReadHeader(circuit_b64).qpy_version /= qpy_version THEN "VersionMismatch"
    ELSE IF ReadHeader(circuit_b64).num_programs /= 1 THEN "UnexpectedProgramCount"
    ELSE "ok"

\* QpyModel(circuit_b64=..., qpy_version=...): the field constraints, then
\* the model validator.
QpyModelConstruct(cls, circuit_b64, qpy_version) ==
    IF ~QpyVersionField(cls, qpy_version) THEN "FieldRange"
    ELSE CrossValidateQpyVersion(circuit_b64, qpy_version)

\* A variant of ValidateQpyVersionRange whose upper bound is exclusive.
ValidateQpyVersionRangeExclusive(value, min_version, max_version) ==
    IF ~value.b64ok THEN "InvalidBase64"
    ELSE IF ~value.zipped THEN "DecompressError"
    ELSE IF ~ReadHeader(value).ok THEN "HeaderUnreadable"
    ELSE IF ReadHeader(value).qpy_version < min_version
            \/ ReadHeader(value).qpy_version >= max_version THEN "VersionOutOfRange"
    ELSE IF ReadHeader(value).num_programs /= 1 THEN "UnexpectedProgramCount"
    ELSE "ok"

\* _validate_qpy_version_range(value, min_version, max_version)
ValidateQpyVersionRange(value, min_version, max_version) ==
    IF ~value.b64ok THEN "InvalidBase64"
    ELSE IF ~value.zipped THEN "DecompressError"
    ELSE IF ~ReadHeader(value).ok THEN "HeaderUnreadable"
    ELSE IF ReadHeader(value).qpy_version < min_version
            \/ ReadHeader(value).qpy_version > max_version THEN "VersionOutOfRange"
    ELSE IF ReadHeader(value).num_programs /= 1 THEN "UnexpectedProgramCount"
    ELSE "ok"

\* CircuitQpyModelV13to14.validate_qpy_version
ValidateQpyVersion13to14(value) ==
    IF ~value.b64ok THEN "InvalidBase64"
    ELSE IF ~value.zipped THEN "DecompressError"
    ELSE IF ~ReadHeader(value).ok THEN "HeaderUnreadable"
    ELSE IF ReadHeader(value).qpy_version < 13
            \/ ReadHeader(value).qpy_version > 14 THEN "VersionOutOfRange"
    ELSE IF ReadHeader(value).num_programs /= 1 THEN "UnexpectedProgramCount"
    ELSE "ok"

TypedClasses == {"TypedQpyCircuitModelV13to17", "CircuitQpyModelV13to14"}

\* type_: Literal["QuantumCircuit"] = Field(alias="__type__")
TypeField(type_) == type_ = "QuantumCircuit"

\* Validation of {"__type__": ..., "__value__": ...} by a tag-variant class.
TypedConstruct(cls, type_, value) ==
    IF ~TypeField(type_) THEN "FieldType"
    ELSE CASE cls = "TypedQpyCircuitModelV13to17" -> ValidateQpyVersionRange(value, 13, 17)
           [] cls = "CircuitQpyModelV13to14" -> ValidateQpyVersion13to14(value)

\* The texts handed to the envelope constructors: text that is not base64,
\* bytes too short for a header, and every header.
EnvelopeTexts(zipped) ==
    {EnvelopeText(FALSE, FALSE, FALSE, 0, 0, 0, FALSE)}
    \cup {EnvelopeText(TRUE, z, FALSE, 0, 0, 0, FALSE) : z \in zipped}
    \cup {EnvelopeText(TRUE, z, TRUE, v, n, 0, TRUE) :
            z \in zipped, v \in Versions, n \in 0..MaxPrograms}

NoEnvelopeInput ==
    [cls |-> "none", type_ |-> "none", qpy_version |-> 0,
     value |-> EnvelopeText(FALSE, FALSE, FALSE, 0, 0, 0, FALSE),
     has_value |-> FALSE, junk |-> FALSE]

\* type_: ... = Field(default="QuantumCircuit", alias="__type__")
TypeDefault(type_) == IF type_ = "absent" THEN "QuantumCircuit" ELSE type_

\* model_validate({"__type__": type_, "__value__": value}) by a tag-variant
\* class, either key possibly left out: the field checks (Literal, required)
\* and, when they pass, the validator of the class.
TypedModelValidate(cls, type_, has_value, value) ==
    IF ~TypeField(TypeDefault(type_)) THEN "FieldType"
    ELSE IF ~has_value THEN "FieldRequired"
    ELSE TypedConstruct(cls, TypeDefault(type_), value)

NoInstance == [made |-> FALSE, type_ |-> "none", value_ |-> NoEnvelopeInput.value,
               junk |-> FALSE]

\* The instance model_validate returns: the fields as validated.  The text
\* of __value__ is stored as it came, characters outside the base64
\* alphabet included.
TypedInstance(cls, type_, has_value, value, junk) ==
    IF TypedModelValidate(cls, type_, has_value, value) = "ok"
    THEN [made |-> TRUE, type_ |-> TypeDefault(type_), value_ |-> value, junk |-> junk]
    ELSE NoInstance

OnlyEnvelope == UNCHANGED <<tensorVars, itemVars, programVars, cacheVars, samplexVars,
        f64Vars,
        zneVars,
        fanVars>>

InitEnvelope ==
    /\ eop = "init"
    /\ ein = NoEnvelopeInput
    /\ eres = "none"
    /\ einst = NoInstance

\* QpyModel / QpyModelV13ToV16 / QpyModelV13ToV17 from wire fields.
QpyModelFromWire ==
    /\ eop = "init"
    /\ \E cls \in QpyClasses, text \in EnvelopeTexts({FALSE}), v \in Versions :
        /\ eop' = "qpy"
        /\ ein' = [cls |-> cls, type_ |-> "none", qpy_version |-> v, value |-> text,
                    has_value |-> TRUE, junk |-> FALSE]
        /\ eres' = QpyModelConstruct(cls, text, v)
        /\ einst' = NoInstance
        /\ OnlyEnvelope

\* The __value__ entries of the input: left out, or a text.  `junk` says
\* that the text carries characters outside the base64 alphabet, which
\* pybase64.b64decode (validate=False) discards before it decodes: what the
\* decoders find (b64ok, zipped, ...) is what the remaining characters hold.
TypedValues ==
    {[has_value |-> FALSE, value |-> NoEnvelopeInput.value, junk |-> FALSE]}
    \cup {[has_value |-> TRUE, value |-> text, junk |-> j] :
             text \in EnvelopeTexts(BOOLEAN), j \in BOOLEAN}

\* TypedQpyCircuitModelV13to17 / CircuitQpyModelV13to14 from wire fields.
TypedFromWire ==
    /\ eop = "init"
    /\ \E cls \in TypedClasses, type_ \in {"QuantumCircuit", "WrongType", "absent"},
          in \in TypedValues :
        /\ eop' = "typed"
        /\ ein' = [cls |-> cls, type_ |-> type_, qpy_version |-> 0, value |-> in.value,
                    has_value |-> in.has_value, junk |-> in.junk]
        /\ eres' = TypedModelValidate(cls, type_, in.has_value, in.value)
        /\ einst' = TypedInstance(cls, type_, in.has_value, in.value, in.junk)
        /\ OnlyEnvelope

NextEnvelope ==
    \/ QpyModelFromWire
    \/ TypedFromWire

(***************************************************************************)
(* Executor program items (executor/version_0_1 and version_0_2).          *)
(* An item holds a QpyModel envelope, and either an F64TensorModel or a    *)
(* SamplexModel envelope.  An envelope is built from wire fields (its      *)
(* cache slot stays empty) or by from_quantum_circuit / from_samplex (the  *)
(* slot holds the encoded object).                                         *)
(***************************************************************************)
Schemas == {"v0.1", "v0.2"}

\* circuit: QpyModelV13ToV16 (v0.1), QpyModelV13ToV17 (v0.2)
CircuitClass(schema) ==
    IF schema = "v0.1" THEN "QpyModelV13ToV16" ELSE "QpyModelV13ToV17"

\* samplex: SamplexModel (v0.1), SamplexModelSSV1ToSSV2 (v0.2)
SamplexClass(schema) ==
    IF schema = "v0.1" THEN "SamplexModel" ELSE "SamplexModelSSV1ToSSV2"

SchemaOf(cls) == IF cls \in {"QpyModelV13ToV16", "SamplexModel"} THEN "v0.1" ELSE "v0.2"

\* The private attribute _circuit / _samplex: unset, or the decoded object.
\* A decoded circuit is known by its num_parameters; a decoded samplex by
\* whether its outputs have a "parameter_values" spec and by the last entry
\* of that spec's shape.
EmptySlot == [set |-> FALSE, num_parameters |-> 0, has_pv |-> FALSE, pv_last |-> 0]
CircuitObject(n) == [set |-> TRUE, num_parameters |-> n, has_pv |-> FALSE, pv_last |-> 0]
SamplexObject(has_pv, pv_last) ==
    [set |-> TRUE, num_parameters |-> 0, has_pv |-> has_pv, pv_last |-> pv_last]

\* ---- QpyModel as a field of an item ----
\* The header versions an item is given: the last version both schemas
\* accept (16), the one only v0.2 accepts (17), and up to MaxPrograms programs.
ItemVersions == {16, 17}

ItemCircuitTexts ==
    {EnvelopeText(FALSE, FALSE, FALSE, 0, 0, 0, FALSE)}
    \cup {EnvelopeText(TRUE, FALSE, TRUE, v, n, p, l) :
            v \in ItemVersions, n \in 1..MaxPrograms, p \in 0..MaxParams, l \in BOOLEAN}

QpyEnvelope(cls, circuit_b64, qpy_version, status, cache) ==
    [cls |-> cls, circuit_b64 |-> circuit_b64, qpy_version |-> qpy_version,
     status |-> status, cache |-> cache]

\* A variant of Dump that compresses the serialized bytes before encoding them.
DumpCompressed(num_parameters, qpy_version) ==
    EnvelopeText(TRUE, TRUE, TRUE, qpy_version, 1, num_parameters, TRUE)

\* qiskit.qpy.dump(circuit, version=qpy_version), base64-encoded: one
\* program, the circuit's parameters, loadable again.
Dump(num_parameters, qpy_version) ==
    EnvelopeText(TRUE, FALSE, TRUE, qpy_version, 1, num_parameters, TRUE)

\* QpyModel.from_quantum_circuit(circuit, qpy_version)
FromQuantumCircuit(cls, num_parameters, qpy_version) ==
    LET circuit_b64 == Dump(num_parameters, qpy_version)
        status == QpyModelConstruct(cls, circuit_b64, qpy_version)
    IN  QpyEnvelope(cls, circuit_b64, qpy_version, status,
                    IF status = "ok" THEN CircuitObject(num_parameters) ELSE EmptySlot)

\* qiskit.qpy.load(BytesIO(b64decode(circuit_b64)))[0]
Load(circuit_b64) ==
    [ok |-> circuit_b64.b64ok /\ circuit_b64.readable /\ circuit_b64.loadable,
     circuit |-> CircuitObject(circuit_b64.num_parameters)]

\* A variant of ToQuantumCircuit that decodes whatever the slot holds.
ToQuantumCircuitAlwaysLoad(env, use_cached) ==
    IF Load(env.circuit_b64).ok
    THEN [status |-> "ok", circuit |-> Load(env.circuit_b64).circuit,
          cache |-> Load(env.circuit_b64).circuit, decoded |-> TRUE]
    ELSE [status |-> "LoadError", circuit |-> EmptySlot, cache |-> env.cache,
          decoded |-> TRUE]

\* QpyModel.to_quantum_circuit(use_cached): the outcome, the circuit returned,
\* the cache slot afterwards, and whether the decoder was invoked.
ToQuantumCircuit(env, use_cached) ==
    IF ~use_cached \/ ~env.cache.set
    THEN IF Load(env.circuit_b64).ok
         THEN [status |-> "ok", circuit |-> Load(env.circuit_b64).circuit,
               cache |-> Load(env.circuit_b64).circuit, decoded |-> TRUE]
         ELSE [status |-> "LoadError", circuit |-> EmptySlot, cache |-> env.cache,
               decoded |-> TRUE]
    ELSE [status |-> "ok", circuit |-> env.cache, cache |-> env.cache,
          decoded |-> FALSE]

\* ---- SamplexModel as a field of an item ----
MaxSsv == 3

\* samplex_json: the version the key search locates in the text (0: none),
\* whether samplex_from_json can load it, and what it loads.
SamplexText(token, loadable, has_pv, pv_last) ==
    [token |-> token, loadable |-> loadable, has_pv |-> has_pv, pv_last |-> pv_last]

\* A variant of SsvField in which every bounded class admits one version more.
SsvFieldLoose(cls, ssv) ==
    CASE cls = "SamplexModel" -> ssv >= 1
      [] cls = "SamplexModelSSV1" -> ssv >= 1 /\ ssv <= 2
      [] cls = "SamplexModelSSV1ToSSV2" -> ssv >= 1 /\ ssv <= 3

\* ssv: int = Field(ge=1) (SamplexModel), Field(ge=1, le=2) (SamplexModelSSV1ToSSV2)
SsvField(cls, ssv) ==
    CASE cls = "SamplexModel" -> ssv >= 1
      [] cls = "SamplexModelSSV1" -> ssv >= 1 /\ ssv <= 1
      [] cls = "SamplexModelSSV1ToSSV2" -> ssv >= 1 /\ ssv <= 2

\* SamplexModel.cross_validate_ssv_version
CrossValidateSsvVersion(samplex_json, ssv) ==
    IF samplex_json.token = 0 THEN "SsvNotFound"
    ELSE IF ssv /= samplex_json.token THEN "SsvMismatch"
    ELSE "ok"

\* SamplexModel(ssv=..., samplex_json=...)
SamplexModelConstruct(cls, samplex_json, ssv) ==
    IF ~SsvField(cls, ssv) THEN "FieldRange"
    ELSE CrossValidateSsvVersion(samplex_json, ssv)

SamplexEnvelope(cls, samplex_json, ssv, status, cache) ==
    [cls |-> cls, samplex_json |-> samplex_json, ssv |-> ssv,
     status |-> status, cache |-> cache]

\* SamplexModel.from_samplex(samplex, ssv)
FromSamplex(cls, has_pv, pv_last, ssv) ==
    LET samplex_json == SamplexText(ssv, TRUE, has_pv, pv_last)
        status == SamplexModelConstruct(cls, samplex_json, ssv)
    IN  SamplexEnvelope(cls, samplex_json, ssv, status,
                        IF status = "ok" THEN SamplexObject(has_pv, pv_last) ELSE EmptySlot)

\* SamplexModel.to_samplex(use_cached)
ToSamplex(env, use_cached) ==
    IF ~use_cached \/ ~env.cache.set
    THEN IF env.samplex_json.loadable
         THEN [status |-> "ok",
               samplex |-> SamplexObject(env.samplex_json.has_pv, env.samplex_json.pv_last),
               cache |-> SamplexObject(env.samplex_json.has_pv, env.samplex_json.pv_last)]
         ELSE [status |-> "LoadError", samplex |-> EmptySlot, cache |-> env.cache]
    ELSE [status |-> "ok", samplex |-> env.cache, cache |-> env.cache]

\* The samplex outputs an item is given: none named "parameter_values", or
\* one whose shape ends in 0..MaxParams.
SamplexOutputs ==
    {<<FALSE, 0>>} \cup {<<TRUE, p>> : p \in 0..MaxParams}

ItemSamplexTexts ==
    {SamplexText(t, l, o[1], o[2]) : t \in 0..MaxSsv, l \in BOOLEAN, o \in SamplexOutputs}

\* ---- the items ----
MaxBatch == 2

\* chunk_size: an integer, or the string "auto".
Auto == [kind |-> "auto", n |-> 0]
IntChunk(n) == [kind |-> "int", n |-> n]

\* chunk_size: int = Field(ge=1) (v0.1);
\* chunk_size: Annotated[int, Field(ge=1)] | Literal["auto"] = "auto" (v0.2)
ChunkSizeField(schema, chunk_size) ==
    IF chunk_size.kind = "int" THEN chunk_size.n >= 1 ELSE schema = "v0.2"

ItemChunkSizes == {Auto, IntChunk(0), IntChunk(1)}

\* A variant of F64TensorConstruct that admits every dtype of TensorModel.
F64TensorConstructAnyDtype(data, shape, dtype) ==
    CheckSizes(data, shape, dtype)

\* F64TensorModel(data=..., shape=..., dtype=...): dtype: Literal["f64"],
\* then TensorModel.check_sizes.
F64TensorConstruct(data, shape, dtype) ==
    IF dtype /= "f64" THEN "FieldType" ELSE CheckSizes(data, shape, dtype)

\* The shapes of the argument tensors: no axes, the parameter axis alone, or
\* a batch axis before it.
ItemShapes ==
    {<<>>} \cup {<<p>> : p \in 0..MaxParams} \cup {<<MaxBatch, p>> : p \in 0..MaxParams}

\* The argument tensors: from_numpy of an array of zeros of each shape, the
\* same with its data dropped, and the same declared as u8.
ItemTensors ==
    LET Zeros(shape) == B64Encode([i \in 1..(8 * Prod(shape)) |-> 0])
    IN  {[data |-> Zeros(s), shape |-> s, dtype |-> "f64"] : s \in ItemShapes}
        \cup {[data |-> <<>>, shape |-> s, dtype |-> "f64"] : s \in ItemShapes}
        \cup {[data |-> Zeros(s), shape |-> s, dtype |-> "u8"] : s \in ItemShapes}

\* A variant of LastAxis that reads the first axis.
FirstAxis(shape) == IF Len(shape) > 0 THEN shape[1] ELSE 0

\* self.circuit_arguments.shape[-1] if self.circuit_arguments.shape else 0
LastAxis(shape) == IF Len(shape) > 0 THEN shape[Len(shape)] ELSE 0

\* CircuitItemModel.cross_validate (v0.1 and v0.2 alike): the outcome, the
\* circuit envelope's cache slot afterwards, and whether the circuit decoder
\* was invoked.
CircuitItemCrossValidate(circuit, circuit_arguments) ==
    LET got == ToQuantumCircuit(circuit, TRUE)
        num_parameters == LastAxis(circuit_arguments.shape)
    IN  [status |-> IF got.status /= "ok" THEN got.status
                    ELSE IF num_parameters /= got.circuit.num_parameters
                         THEN "ParameterCountMismatch"
                    ELSE "ok",
         cache |-> got.cache, loaded |-> got.decoded]

\* CircuitItemModel(circuit=..., circuit_arguments=..., chunk_size=...): the
\* fields, then the model validator.
CircuitItemConstruct(schema, circuit, circuit_arguments, chunk_size) ==
    IF circuit.cls /= CircuitClass(schema) \/ circuit.status /= "ok"
    THEN [status |-> "CircuitInvalid", cache |-> circuit.cache, loaded |-> FALSE]
    ELSE IF F64TensorConstruct(circuit_arguments.data, circuit_arguments.shape,
                               circuit_arguments.dtype) /= "ok"
    THEN [status |-> "ArgumentsInvalid", cache |-> circuit.cache, loaded |-> FALSE]
    ELSE IF ~ChunkSizeField(schema, chunk_size)
    THEN [status |-> "ChunkSizeInvalid", cache |-> circuit.cache, loaded |-> FALSE]
    ELSE CircuitItemCrossValidate(circuit, circuit_arguments)

\* SamplexItemModel.cross_validate: the outcome and both cache slots
\* afterwards.  v0.1 takes the first output spec named "parameter_values"
\* with next(iter(...)); v0.2 asks get_specs and falls back to 0.
SamplexItemCrossValidate(schema, circuit, samplex) ==
    LET gotc == ToQuantumCircuit(circuit, TRUE)
        gots == ToSamplex(samplex, TRUE)
        slots(status) ==
            [status |-> status, cache |-> gotc.cache,
             scache |-> IF gotc.status = "ok" THEN gots.cache ELSE samplex.cache,
             loaded |-> gotc.decoded]
    IN  IF gotc.status /= "ok" THEN slots(gotc.status)
        ELSE IF gots.status /= "ok" THEN slots(gots.status)
        ELSE IF schema = "v0.1"
        THEN IF ~gots.samplex.has_pv THEN slots("StopIteration")
             ELSE IF gots.samplex.pv_last /= gotc.circuit.num_parameters
                  THEN slots("ParameterCountMismatch")
             ELSE slots("ok")
        ELSE LET num_output_params ==
                    IF gots.samplex.has_pv THEN gots.samplex.pv_last ELSE 0
             IN  IF num_output_params /= gotc.circuit.num_parameters
                 THEN slots("ParameterCountMismatch")
                 ELSE slots("ok")

\* SamplexItemModel(circuit=..., samplex=..., chunk_size=...)
SamplexItemConstruct(schema, circuit, samplex, chunk_size) ==
    IF circuit.cls /= CircuitClass(schema) \/ circuit.status /= "ok"
    THEN [status |-> "CircuitInvalid", cache |-> circuit.cache, scache |-> samplex.cache,
          loaded |-> FALSE]
    ELSE IF samplex.cls /= SamplexClass(schema) \/ samplex.status /= "ok"
    THEN [status |-> "SamplexInvalid", cache |-> circuit.cache, scache |-> samplex.cache,
          loaded |-> FALSE]
    ELSE IF ~ChunkSizeField(schema, chunk_size)
    THEN [status |-> "ChunkSizeInvalid", cache |-> circuit.cache, scache |-> samplex.cache,
          loaded |-> FALSE]
    ELSE SamplexItemCrossValidate(schema, circuit, samplex)

NoQpyEnvelope ==
    QpyEnvelope("none", EnvelopeText(FALSE, FALSE, FALSE, 0, 0, 0, FALSE), 0, "none", EmptySlot)

NoSamplexEnvelope ==
    SamplexEnvelope("none", SamplexText(0, FALSE, FALSE, 0), 0, "none", EmptySlot)

NoItem ==
    [item_type |-> "none", schema |-> "none",
     circuit_arguments |-> [data |-> <<>>, shape |-> <<>>, dtype |-> "none"],
     chunk_size |-> Auto]

OnlyItem == UNCHANGED <<tensorVars, envelopeVars, programVars, cacheVars, samplexVars,
        f64Vars,
        zneVars,
        fanVars>>

InitItem ==
    /\ iop = "init"
    /\ qenv = NoQpyEnvelope
    /\ senv = NoSamplexEnvelope
    /\ item = NoItem
    /\ ires = "none"
    /\ iload = FALSE

\* The item's circuit arrives as wire fields: QpyModelV13ToV16(...) or
\* QpyModelV13ToV17(...), cache slot empty.
CircuitFromWire ==
    /\ iop = "init"
    /\ \E schema \in Schemas, text \in ItemCircuitTexts, v \in ItemVersions :
        /\ iop' = "circuit"
        /\ qenv' = QpyEnvelope(CircuitClass(schema), text, v,
                               QpyModelConstruct(CircuitClass(schema), text, v), EmptySlot)
        /\ UNCHANGED <<senv, item, ires, iload>>
        /\ OnlyItem

\* The item's circuit is made by from_quantum_circuit.
CircuitFromQuantumCircuit ==
    /\ iop = "init"
    /\ \E schema \in Schemas, p \in 0..MaxParams, v \in ItemVersions :
        /\ iop' = "circuit"
        /\ qenv' = FromQuantumCircuit(CircuitClass(schema), p, v)
        /\ UNCHANGED <<senv, item, ires, iload>>
        /\ OnlyItem

\* The item's samplex arrives as wire fields.
SamplexFromWire ==
    /\ iop = "circuit"
    /\ \E text \in ItemSamplexTexts, ssv \in 1..MaxSsv :
        /\ iop' = "samplex"
        /\ senv' = SamplexEnvelope(SamplexClass(SchemaOf(qenv.cls)), text, ssv,
                        SamplexModelConstruct(SamplexClass(SchemaOf(qenv.cls)), text, ssv),
                        EmptySlot)
        /\ UNCHANGED <<qenv, item, ires, iload>>
        /\ OnlyItem

\* The item's samplex is made by from_samplex.
SamplexFromSamplex ==
    /\ iop = "circuit"
    /\ \E o \in SamplexOutputs, ssv \in 1..MaxSsv :
        /\ iop' = "samplex"
        /\ senv' = FromSamplex(SamplexClass(SchemaOf(qenv.cls)), o[1], o[2], ssv)
        /\ UNCHANGED <<qenv, item, ires, iload>>
        /\ OnlyItem

\* CircuitItemModel(...) of the schema the circuit envelope belongs to.
CircuitItem ==
    /\ iop = "circuit"
    /\ \E t \in ItemTensors, c \in ItemChunkSizes :
        LET schema == SchemaOf(qenv.cls)
            made == CircuitItemConstruct(schema, qenv, t, c)
        IN  /\ iop' = "circuit_item"
            /\ item' = [item_type |-> "circuit", schema |-> schema,
                        circuit_arguments |-> t, chunk_size |-> c]
            /\ ires' = made.status
            /\ iload' = made.loaded
            /\ qenv' = [qenv EXCEPT !.cache = made.cache]
            /\ UNCHANGED senv
            /\ OnlyItem

\* SamplexItemModel(...) of the schema the envelopes belong to.
SamplexItem ==
    /\ iop = "samplex"
    /\ \E c \in ItemChunkSizes :
        LET schema == SchemaOf(qenv.cls)
            made == SamplexItemConstruct(schema, qenv, senv, c)
        IN  /\ iop' = "samplex_item"
            /\ item' = [item_type |-> "samplex", schema |-> schema,
                        circuit_arguments |-> NoItem.circuit_arguments, chunk_size |-> c]
            /\ ires' = made.status
            /\ iload' = made.loaded
            /\ qenv' = [qenv EXCEPT !.cache = made.cache]
            /\ senv' = [senv EXCEPT !.cache = made.scache]
            /\ OnlyItem

NextItem ==
    \/ CircuitFromWire
    \/ CircuitFromQuantumCircuit
    \/ SamplexFromWire
    \/ SamplexFromSamplex
    \/ CircuitItem
    \/ SamplexItem

(***************************************************************************)
(* QuantumProgramModel (executor/version_0_1 and version_0_2).  An item of *)
(* a program is known here by its item_type and its chunk_size; its other  *)
(* fields are those of a constructed item.                                 *)
(***************************************************************************)
MaxItems == 3
MaxChunk == 2
MaxShots == 2

ProgramChunkSizes == {Auto} \cup {IntChunk(n) : n \in 0..MaxChunk}

ProgramItems ==
    SeqsUpTo([item_type : {"circuit", "samplex"}, chunk_size : ProgramChunkSizes], MaxItems)

\* shots: int = Field(ge=1)
ShotsField(shots) == shots >= 1

\* {item.chunk_size for item in self.items}
ChunkSizeSet(items) == {items[i].chunk_size : i \in 1..Len(items)}

\* A variant of CheckChunkSizesAreConsistent that wants one chunk size.
CheckChunkSizesAreEqual(items) ==
    IF Cardinality(ChunkSizeSet(items)) > 1
    THEN "InconsistentChunking"
    ELSE "ok"

\* QuantumProgramModel.check_chunk_sizes_are_consistent (v0.2)
CheckChunkSizesAreConsistent(items) ==
    IF Auto \in ChunkSizeSet(items) /\ Cardinality(ChunkSizeSet(items)) > 1
    THEN "InconsistentChunking"
    ELSE "ok"

\* QuantumProgramModel(shots=..., items=...): the fields (each item is
\* validated by its own model), then the model validator, which only v0.2 has.
QuantumProgramConstruct(schema, shots, items) ==
    IF ~ShotsField(shots) THEN "FieldRange"
    ELSE IF \E i \in 1..Len(items) : ~ChunkSizeField(schema, items[i].chunk_size)
    THEN "ItemInvalid"
    ELSE IF schema = "v0.2" THEN CheckChunkSizesAreConsistent(items)
    ELSE "ok"

NoProgram == [schema |-> "none", shots |-> 0, items |-> <<>>]

OnlyProgram == UNCHANGED <<tensorVars, envelopeVars, itemVars, cacheVars, samplexVars,
        f64Vars,
        zneVars,
        fanVars>>

InitProgram ==
    /\ pop = "init"
    /\ prog = NoProgram
    /\ pres = "none"

\* executor v0.1 QuantumProgramModel(...)
QuantumProgramV01 ==
    /\ pop = "init"
    /\ \E shots \in 0..MaxShots, items \in ProgramItems :
        /\ pop' = "program"
        /\ prog' = [schema |-> "v0.1", shots |-> shots, items |-> items]
        /\ pres' = QuantumProgramConstruct("v0.1", shots, items)
        /\ OnlyProgram

\* executor v0.2 QuantumProgramModel(...)
QuantumProgramV02 ==
    /\ pop = "init"
    /\ \E shots \in 0..MaxShots, items \in ProgramItems :
        /\ pop' = "program"
        /\ prog' = [schema |-> "v0.2", shots |-> shots, items |-> items]
        /\ pres' = QuantumProgramConstruct("v0.2", shots, items)
        /\ OnlyProgram

NextProgram ==
    \/ QuantumProgramV01
    \/ QuantumProgramV02

(***************************************************************************)
(* One envelope (QpyModel or SamplexModel) and its cache slot, with the    *)
(* identities of the objects involved.  Objects live in `heap`: object id  *)
(* is heap[id]; the slot _circuit / _samplex holds an id, 0 when unset.    *)
(*   SpecCache      calls to to_quantum_circuit / to_samplex one at a time *)
(*   SpecCacheRace  two callers whose calls interleave step by step        *)
(***************************************************************************)
MaxObjects == 4       \* at most this many objects are created and this many decodes made

Kinds == {"qpy", "samplex"}

\* The envelopes that are constructed from wire fields: the two kinds with
\* a slot, and TypedQpyCircuitModelV13to17, which has no slot and no
\* to_quantum_circuit.
WireKinds == Kinds \cup {"typed"}

\* The circuits and samplexes that are encoded: without parameters, or with
\* MaxParams of them.
CacheParams == {0, MaxParams}

CacheContents(kind) ==
    IF kind = "qpy" THEN {CircuitObject(p) : p \in CacheParams}
    ELSE {SamplexObject(FALSE, 0)} \cup {SamplexObject(TRUE, p) : p \in CacheParams}

CacheClasses(kind) ==
    CASE kind = "qpy" -> QpyClasses
      [] kind = "samplex" -> {"SamplexModel", "SamplexModelSSV1", "SamplexModelSSV1ToSSV2"}
      [] kind = "typed" -> {"TypedQpyCircuitModelV13to17"}

CacheVersions(kind) ==
    CASE kind = "qpy" -> Versions
      [] kind = "samplex" -> 0..MaxSsv
      [] kind = "typed" -> {0}

NoText == [qpy |-> NoQpyEnvelope.circuit_b64, json |-> NoSamplexEnvelope.samplex_json]

\* The encoded value of an envelope: circuit_b64 of a QpyModel, samplex_json
\* of a SamplexModel.
QpyText(circuit_b64) == [qpy |-> circuit_b64, json |-> NoText.json]
JsonText(samplex_json) == [qpy |-> NoText.qpy, json |-> samplex_json]

CacheTexts(kind) ==
    CASE kind = "qpy" ->
            {QpyText(EnvelopeText(FALSE, FALSE, FALSE, 0, 0, 0, FALSE))}
            \cup {QpyText(EnvelopeText(TRUE, FALSE, TRUE, v, 1, p, l)) :
                    v \in ItemVersions, p \in CacheParams, l \in BOOLEAN}
      [] kind = "samplex" ->
            {JsonText(SamplexText(t, l, c.has_pv, c.pv_last)) :
                    t \in 0..MaxSsv, l \in BOOLEAN, c \in CacheContents("samplex")}
      [] kind = "typed" ->
            {QpyText(EnvelopeText(FALSE, FALSE, FALSE, 0, 0, 0, FALSE))}
            \cup {QpyText(EnvelopeText(TRUE, TRUE, TRUE, v, n, p, l)) :
                    v \in ItemVersions \cup {18}, n \in 1..MaxPrograms,
                    p \in CacheParams, l \in BOOLEAN}

\* A variant of Encode that writes the object without its parameters.
EncodeWithoutParameters(kind, content, version) ==
    IF kind = "qpy" THEN QpyText(Dump(0, version))
    ELSE JsonText(SamplexText(version, TRUE, content.has_pv, 0))

\* dump(...) + b64encode (from_quantum_circuit), samplex_to_json (from_samplex)
Encode(kind, content, version) ==
    IF kind = "qpy" THEN QpyText(Dump(content.num_parameters, version))
    ELSE JsonText(SamplexText(version, TRUE, content.has_pv, content.pv_last))

\* load(BytesIO(b64decode(circuit_b64)))[0], samplex_from_json(samplex_json)
Decode(kind, text) ==
    IF kind = "qpy" THEN [ok |-> Load(text.qpy).ok, object |-> Load(text.qpy).circuit]
    ELSE [ok |-> text.json.loadable,
          object |-> SamplexObject(text.json.has_pv, text.json.pv_last)]

\* A variant of Construct that also hands the text to the decoder.
ConstructAndDecode(kind, cls, text, version) ==
    CASE kind = "qpy" ->
            IF QpyModelConstruct(cls, text.qpy, version) = "ok" /\ ~Load(text.qpy).ok
            THEN "LoadError" ELSE QpyModelConstruct(cls, text.qpy, version)
      [] kind = "samplex" -> SamplexModelConstruct(cls, text.json, version)
      [] kind = "typed" ->
            IF TypedConstruct(cls, "QuantumCircuit", text.qpy) = "ok" /\ ~text.qpy.loadable
            THEN "LoadError" ELSE TypedConstruct(cls, "QuantumCircuit", text.qpy)

\* cls(circuit_b64=..., qpy_version=...), cls(samplex_json=..., ssv=...),
\* cls(**{"__type__": "QuantumCircuit", "__value__": ...})
Construct(kind, cls, text, version) ==
    CASE kind = "qpy" -> QpyModelConstruct(cls, text.qpy, version)
      [] kind = "samplex" -> SamplexModelConstruct(cls, text.json, version)
      [] kind = "typed" -> TypedConstruct(cls, "QuantumCircuit", text.qpy)

Envelope(kind, cls, text, version, status, slot, origin) ==
    [kind |-> kind, cls |-> cls, text |-> text, version |-> version,
     status |-> status, slot |-> slot, origin |-> origin]

\* A variant of FromObject that leaves the slot unset.
FromObjectUncached(kind, cls, id, content, version) ==
    Envelope(kind, cls, Encode(kind, content, version), version,
             Construct(kind, cls, Encode(kind, content, version), version), 0, id)

\* from_quantum_circuit(circuit, qpy_version) / from_samplex(samplex, ssv) of
\* the object `id` holding `content`: encode, construct, obj._circuit = circuit.
FromObject(kind, cls, id, content, version) ==
    LET text == Encode(kind, content, version)
        status == Construct(kind, cls, text, version)
    IN  Envelope(kind, cls, text, version, status, IF status = "ok" THEN id ELSE 0, id)

\* A variant of UseCached whose default is True.
UseCachedDefaultTrue(arg) == arg /= "false"

\* def to_quantum_circuit(self, use_cached: bool = False)
UseCached(arg) == arg = "true"

\* A variant of Condition that decodes only when the slot is unset.
ConditionCacheAlways(use_cached, slot) == slot = 0

\* if not use_cached or not hasattr(self, "_circuit")
Condition(use_cached, slot) == ~use_cached \/ slot = 0

\* One whole call of to_quantum_circuit / to_samplex on env with objects hp:
\* the outcome, the object returned, the slot and the objects afterwards,
\* and whether the encoded value was read and handed to the decoder.
ToObject(env, use_cached, hp) ==
    IF Condition(use_cached, env.slot)
    THEN IF Decode(env.kind, env.text).ok
         THEN [status |-> "ok", ret |-> Len(hp) + 1, slot |-> Len(hp) + 1,
               heap |-> Append(hp, Decode(env.kind, env.text).object), read |-> TRUE]
         ELSE [status |-> "LoadError", ret |-> 0, slot |-> env.slot,
               heap |-> hp, read |-> TRUE]
    ELSE [status |-> "ok", ret |-> env.slot, slot |-> env.slot,
          heap |-> hp, read |-> FALSE]

\* A variant of StoreSlot that assigns to the encoded field.
StoreInEncodedField(env, id) == [env EXCEPT !.slot = id, !.text = NoText]

\* self._circuit = ... / self._samplex = ...: the envelope afterwards.
StoreSlot(env, id) == [env EXCEPT !.slot = id]

Callers == {"a", "b"}

NoEnvelope == Envelope("none", "none", NoText, 0, "none", 0, 0)
NoCall == [arg |-> "none", use_cached |-> FALSE, status |-> "none", ret |-> 0,
           read |-> FALSE, after |-> "none"]
Idle == [pc |-> "idle", use_cached |-> FALSE, tmp |-> 0, ret |-> 0]

OnlyCache == UNCHANGED <<tensorVars, envelopeVars, itemVars, programVars, samplexVars,
        f64Vars,
        zneVars,
        fanVars>>

InitCache ==
    /\ cop = "init"
    /\ cenv = NoEnvelope
    /\ heap = <<>>
    /\ decodes = 0
    /\ clast = NoCall
    /\ calls = [t \in Callers |-> Idle]

\* The envelope is constructed from wire fields.
CacheFromWire ==
    /\ cop = "init"
    /\ \E kind \in WireKinds :
       \E cls \in CacheClasses(kind), text \in CacheTexts(kind),
          version \in CacheVersions(kind) :
        /\ cop' = "from_wire"
        /\ cenv' = Envelope(kind, cls, text, version,
                            Construct(kind, cls, text, version), 0, 0)
        /\ UNCHANGED <<heap, decodes, clast, calls>>
        /\ OnlyCache

\* The envelope is made by from_quantum_circuit / from_samplex of an object.
CacheFromObject ==
    /\ cop = "init"
    /\ \E kind \in Kinds :
       \E cls \in CacheClasses(kind), content \in CacheContents(kind),
          version \in CacheVersions(kind) :
        /\ cop' = "from_object"
        /\ heap' = <<content>>
        /\ cenv' = FromObject(kind, cls, 1, content, version)
        /\ UNCHANGED <<decodes, clast, calls>>
        /\ OnlyCache

\* One call of to_quantum_circuit / to_samplex, from start to return.
CacheCall ==
    /\ cop /= "init"
    /\ cenv.kind \in Kinds
    /\ cenv.status = "ok"
    /\ Len(heap) < MaxObjects
    /\ decodes < MaxObjects
    /\ \E arg \in {"default", "true", "false"} :
        LET got == ToObject(cenv, UseCached(arg), heap)
        IN  /\ cop' = "call"
            /\ cenv' = StoreSlot(cenv, got.slot)
            /\ heap' = got.heap
            /\ decodes' = IF got.read THEN decodes + 1 ELSE decodes
            /\ clast' = [arg |-> arg, use_cached |-> UseCached(arg), status |-> got.status,
                         ret |-> got.ret, read |-> got.read, after |-> cop]
            /\ UNCHANGED calls
            /\ OnlyCache

NextCache ==
    \/ CacheFromWire
    \/ CacheFromObject
    \/ CacheCall

\* ---- two callers on one envelope, step by step ----
\* A caller enters to_quantum_circuit / to_samplex with its use_cached.
CallBegin ==
    /\ cop /= "init"
    /\ cenv.kind \in Kinds
    /\ cenv.status = "ok"
    /\ \E t \in Callers, use_cached \in BOOLEAN :
        /\ calls[t].pc = "idle"
        /\ calls' = [calls EXCEPT ![t] = [Idle EXCEPT !.pc = "test", !.use_cached = use_cached]]
        /\ UNCHANGED <<cop, cenv, heap, decodes, clast>>
        /\ OnlyCache

\* if not use_cached or not hasattr(self, "_circuit"):
CallTest ==
    \E t \in Callers :
        /\ calls[t].pc = "test"
        /\ calls' = [calls EXCEPT ![t].pc =
                        IF Condition(calls[t].use_cached, cenv.slot) THEN "load" ELSE "return"]
        /\ UNCHANGED <<cop, cenv, heap, decodes, clast>>
        /\ OnlyCache

\* load(BytesIO(pybase64.b64decode(self.circuit_b64)))[0]: a new object, or
\* the decoder's exception.
CallLoad ==
    \E t \in Callers :
        /\ calls[t].pc = "load"
        /\ decodes' = decodes + 1
        /\ IF Decode(cenv.kind, cenv.text).ok
           THEN /\ heap' = Append(heap, Decode(cenv.kind, cenv.text).object)
                /\ calls' = [calls EXCEPT ![t].pc = "store", ![t].tmp = Len(heap) + 1]
           ELSE /\ heap' = heap
                /\ calls' = [calls EXCEPT ![t].pc = "raised"]
        /\ UNCHANGED <<cop, cenv, clast>>
        /\ OnlyCache

\* self._circuit = <the loaded object>
CallStore ==
    \E t \in Callers :
        /\ calls[t].pc = "store"
        /\ cenv' = StoreSlot(cenv, calls[t].tmp)
        /\ calls' = [calls EXCEPT ![t].pc = "return"]
        /\ UNCHANGED <<cop, heap, decodes, clast>>
        /\ OnlyCache

\* return self._circuit
CallReturn ==
    \E t \in Callers :
        /\ calls[t].pc = "return"
        /\ calls' = [calls EXCEPT ![t].pc = "done", ![t].ret = cenv.slot]
        /\ UNCHANGED <<cop, cenv, heap, decodes, clast>>
        /\ OnlyCache

NextCacheRace ==
    \/ CacheFromWire
    \/ CacheFromObject
    \/ CallBegin
    \/ CallTest
    \/ CallLoad
    \/ CallStore
    \/ CallReturn

(***************************************************************************)
(* SamplexModel constructed from wire fields, with samplex_json as text.   *)
(* A character of the text is "Q" (a double quote), "K" (the letters ssv), *)
(* "B" (a backslash), "C" (a colon), "S" (a space), "x" (any other         *)
(* character) or a decimal digit.                                          *)
(***************************************************************************)
Digits == {"0", "1", "2", "3"}

\* int() of one decimal digit
DigitValue(c) ==
    CASE c = "0" -> 0 [] c = "1" -> 1 [] c = "2" -> 2 [] c = "3" -> 3

RECURSIVE IntOf(_)
\* int(encoded_ssv_match.group(1))
IntOf(ds) ==
    IF ds = <<>> THEN 0
    ELSE 10 * IntOf(SubSeq(ds, 1, Len(ds) - 1)) + DigitValue(ds[Len(ds)])

RECURSIVE SkipBackslashes(_, _)
\* \\* : the position after the backslashes that start at position i
SkipBackslashes(text, i) ==
    IF i <= Len(text) /\ text[i] = "B" THEN SkipBackslashes(text, i + 1) ELSE i

RECURSIVE TakeDigits(_, _)
\* (\d+) : the digits that start at position i, as many as there are
TakeDigits(text, i) ==
    IF i <= Len(text) /\ text[i] \in Digits
    THEN <<text[i]>> \o TakeDigits(text, i + 1)
    ELSE <<>>

\* The pattern "ssv\\*"\:\\*"(\d+) matched at position i: group 1, or <<>>
\* when it does not match there.
MatchAt(text, i) ==
    LET At(j, c) == j <= Len(text) /\ text[j] = c
        j1 == SkipBackslashes(text, i + 2)
        j2 == SkipBackslashes(text, j1 + 2)
    IN  IF At(i, "Q") /\ At(i + 1, "K") /\ At(j1, "Q") /\ At(j1 + 1, "C") /\ At(j2, "Q")
        THEN TakeDigits(text, j2 + 1)
        ELSE <<>>

RECURSIVE SearchFrom(_, _)
SearchFrom(text, i) ==
    IF i > Len(text) THEN [found |-> FALSE, group |-> <<>>]
    ELSE IF MatchAt(text, i) /= <<>> THEN [found |-> TRUE, group |-> MatchAt(text, i)]
    ELSE SearchFrom(text, i + 1)

\* re.search(r'"ssv\\*"\:\\*"(\d+)', self.samplex_json): the leftmost match
ReSearch(text) == SearchFrom(text, 1)

\* A variant of CrossValidateSsvText that accepts whatever version it locates.
CrossValidateSsvTextAnyVersion(text, ssv) ==
    IF ~ReSearch(text).found THEN "SsvNotFound" ELSE "ok"

\* SamplexModel.cross_validate_ssv_version on the text of samplex_json
CrossValidateSsvText(text, ssv) ==
    IF ~ReSearch(text).found THEN "SsvNotFound"
    ELSE IF ssv /= IntOf(ReSearch(text).group) THEN "SsvMismatch"
    ELSE "ok"

\* cls(ssv=..., samplex_json=...): the outcome and the validation steps that
\* ran.  The model validator (mode="after") runs only when the fields are valid.
SamplexFromText(cls, text, ssv) ==
    IF ~SsvField(cls, ssv)
    THEN [status |-> "FieldRange", steps |-> <<"fields">>]
    ELSE [status |-> CrossValidateSsvText(text, ssv),
          steps |-> <<"fields", "cross_validate_ssv_version">>]

\* Pieces of samplex_json around one "ssv" key: plain or escaped quotes,
\* with or without the colon, a space after it, a quoted or a bare value.
SsvPieces ==
    {<<"Q", "K">> \o esc \o <<"Q">> \o sep \o esc \o open \o ds :
        esc \in {<<>>, <<"B">>},
        sep \in {<<"C">>, <<"C", "S">>, <<>>},
        open \in {<<"Q">>, <<>>},
        ds \in {<<>>, <<"1">>, <<"2">>, <<"3">>, <<"1", "2">>, <<"0", "1">>}}

\* The texts: nothing, one piece, or two pieces one after the other.
SsvTexts ==
    {<<>>} \cup {<<"x">> \o a \o <<"Q">> : a \in SsvPieces}
    \cup {a \o <<"Q", "x">> \o b : a \in SsvPieces, b \in SsvPieces}

SamplexClasses == {"SamplexModel", "SamplexModelSSV1", "SamplexModelSSV1ToSSV2"}

NoSamplexInput == [cls |-> "none", samplex_json |-> <<>>, ssv |-> 0]

OnlySamplex == UNCHANGED <<tensorVars, envelopeVars, itemVars, programVars, cacheVars,
        f64Vars,
        zneVars,
        fanVars>>

InitSamplex ==
    /\ sop = "init"
    /\ sin = NoSamplexInput
    /\ sres = "none"
    /\ strace = <<>>

\* SamplexModel / SamplexModelSSV1 / SamplexModelSSV1ToSSV2 from wire fields.
SamplexModelFromWire ==
    /\ sop = "init"
    /\ \E cls \in SamplexClasses, text \in SsvTexts, ssv \in 0..MaxSsv :
        /\ sop' = "wire"
        /\ sin' = [cls |-> cls, samplex_json |-> text, ssv |-> ssv]
        /\ sres' = SamplexFromText(cls, text, ssv).status
        /\ strace' = SamplexFromText(cls, text, ssv).steps
        /\ OnlySamplex

NextSamplex ==
    \/ SamplexModelFromWire

(***************************************************************************)
(* F64TensorModel: TensorModel with dtype: Literal["f64"] = "f64".         *)
(***************************************************************************)
\* The dtype field as it may arrive: one of the three names, or left out.
Absent == "absent"

\* dtype: Literal["f64"] = "f64": the default when the field is left out.
F64Default(dtype) == IF dtype = Absent THEN "f64" ELSE dtype

\* F64TensorModel.from_numpy(array): from_numpy is inherited, so the record
\* is encoded as TensorModel does and handed to cls(...), F64TensorModel.
F64FromNumpy(array) ==
    IF array.dtype \in Dtypes
    THEN [tm |-> FromNumpy(array).tm,
          status |-> F64TensorConstruct(FromNumpy(array).tm.data,
                                        FromNumpy(array).tm.shape,
                                        FromNumpy(array).tm.dtype)]
    ELSE FromNumpy(array)

OnlyF64 == UNCHANGED <<tensorVars, envelopeVars, itemVars, programVars,
        cacheVars, samplexVars,
        zneVars,
        fanVars>>

InitF64 ==
    /\ fop = "init"
    /\ farr = NoArray
    /\ ftm = NoTensor
    /\ fres = "none"

\* F64TensorModel(data=..., shape=..., dtype=...) from wire fields.
F64FromWire ==
    /\ fop = "init"
    /\ \E data \in WireData, shape \in WireShapes, dtype \in Dtypes \cup {Absent} :
        /\ fop' = "wire"
        /\ farr' = NoArray
        /\ ftm' = [data |-> data, shape |-> shape, dtype |-> F64Default(dtype)]
        /\ fres' = F64TensorConstruct(data, shape, F64Default(dtype))
        /\ OnlyF64

\* F64TensorModel.from_numpy(array)
F64TensorFromNumpy ==
    /\ fop = "init"
    /\ \E dtype \in Dtypes, shape \in ArrayShapes :
        /\ Prod(shape) <= MaxElems(dtype)
        /\ \E flat \in [1..Prod(shape) -> ElemVals(dtype)] :
            LET array == [dtype |-> dtype, shape |-> shape, flat |-> flat]
            IN /\ fop' = "numpy"
               /\ farr' = array
               /\ ftm' = F64FromNumpy(array).tm
               /\ fres' = F64FromNumpy(array).status
               /\ OnlyF64

NextF64 ==
    \/ F64FromWire
    \/ F64TensorFromNumpy

(***************************************************************************)
(* ZneOptionsModel (estimator/version_0_1_dev/zne_options_model.py).       *)
(* Noise factors are counted in halves: 2 stands for 1, 3 for 1.5.         *)
(* noise_factors is a record: `given` FALSE stands for None.  extrapolator *)
(* is a record: `is_str` says that a single name was given, not a list.    *)
(***************************************************************************)
MaxFactors == 8          \* noise_factors of 0..MaxFactors entries
MaxExtrapolators == 2    \* extrapolator lists of 0..MaxExtrapolators entries

None == "None"

\* noise_factors=None, noise_factors=factors
NoFactors == [given |-> FALSE, factors |-> <<>>]
Factors(factors) == [given |-> TRUE, factors |-> factors]

\* extrapolator="name", extrapolator=[names]
OneExtrapolator(name) == [is_str |-> TRUE, names |-> <<name>>]
ExtrapolatorList(names) == [is_str |-> FALSE, names |-> names]

Amplifiers == {"gate_folding", "gate_folding_front", "gate_folding_back", "pea"}

\* required_factors, with the polynomial_degree_k entries of the loop
RequiredFactors ==
    [linear |-> 2, exponential |-> 2, double_exponential |-> 4, fallback |-> 1,
     polynomial_degree_1 |-> 2, polynomial_degree_2 |-> 3, polynomial_degree_3 |-> 4,
     polynomial_degree_4 |-> 5, polynomial_degree_5 |-> 6, polynomial_degree_6 |-> 7,
     polynomial_degree_7 |-> 8]

ExtrapolatorType == DOMAIN RequiredFactors

\* A variant of Required in which double_exponential needs one factor less.
RequiredOneLess(extrap) ==
    IF extrap = "double_exponential" THEN 3 ELSE RequiredFactors[extrap]

\* required_factors[extrap]
Required(extrap) == RequiredFactors[extrap]

\* _validate_zne_noise_factors: every given factor is >= 1
ValidateZneNoiseFactors(noise_factors) ==
    ~noise_factors.given
    \/ \A i \in 1..Len(noise_factors.factors) : noise_factors.factors[i] >= 2

\* (1, 1.5, 2, 2.5, 3) if self.amplifier == "pea" else (1, 3, 5)
DefaultNoiseFactors(amplifier) ==
    IF amplifier = "pea" THEN <<2, 3, 4, 5, 6>> ELSE <<2, 6, 10>>

\* [self.extrapolator] if isinstance(self.extrapolator, str) else self.extrapolator
Extrapolators(extrapolator) == extrapolator.names

\* The loop over the extrapolators: the position of the one that raises, 0
\* when none does.
RECURSIVE FirstRaising(_, _, _)
FirstRaising(extrapolators, n, k) ==
    IF k > Len(extrapolators) THEN 0
    ELSE IF n < Required(extrapolators[k]) THEN k
    ELSE FirstRaising(extrapolators, n, k + 1)

NoZne == [amplifier |-> "none", noise_factors |-> NoFactors,
          extrapolator |-> ExtrapolatorList(<<>>),
          extrapolated_noise_factors |-> <<>>]

\* ZneOptionsModel(amplifier=..., noise_factors=..., extrapolator=...,
\* extrapolated_noise_factors=...): the outcome, the extrapolator the error
\* names, and the fields of the instance.
ZneOptionsConstruct(amplifier, noise_factors, extrapolator, extrapolated) ==
    IF ~ValidateZneNoiseFactors(noise_factors)
    THEN [status |-> "FieldValue", named |-> None, model |-> NoZne]
    ELSE LET factors == IF ~noise_factors.given THEN DefaultNoiseFactors(amplifier)
                        ELSE noise_factors.factors
             extra == IF Len(extrapolated) = 0 THEN <<0>> \o factors ELSE extrapolated
             at == FirstRaising(Extrapolators(extrapolator), Len(factors), 1)
         IN IF at /= 0
            THEN [status |-> "TooFewNoiseFactors",
                  named |-> Extrapolators(extrapolator)[at], model |-> NoZne]
            ELSE [status |-> "ok", named |-> None,
                  model |-> [amplifier |-> amplifier, noise_factors |-> Factors(factors),
                             extrapolator |-> extrapolator,
                             extrapolated_noise_factors |-> extra]]

\* The noise_factors given: None, the factors 1, 1.5, 2, ... of each length,
\* and the same with one entry replaced by 0.5.
NoiseFactorInputs ==
    {NoFactors}
    \cup {Factors([i \in 1..n |-> i + 1]) : n \in 0..MaxFactors}
    \cup {Factors([i \in 1..n |-> IF i = n THEN 1 ELSE i + 1]) : n \in 1..MaxFactors}

\* The extrapolator given: one name, or a list of names.
ExtrapolatorInputs ==
    {OneExtrapolator(name) : name \in ExtrapolatorType}
    \cup {ExtrapolatorList(names) :
             names \in UNION {[1..n -> ExtrapolatorType] : n \in 0..MaxExtrapolators}}

OnlyZne == UNCHANGED <<tensorVars, envelopeVars, itemVars, programVars,
        cacheVars, samplexVars, f64Vars,
        fanVars>>

InitZne ==
    /\ zop = "init"
    /\ zin = NoZne
    /\ zres = [status |-> "none", named |-> None, model |-> NoZne]

ZneOptionsModel ==
    /\ zop = "init"
    /\ \E amplifier \in Amplifiers, noise_factors \in NoiseFactorInputs,
          extrapolator \in ExtrapolatorInputs, extrapolated \in {<<>>, <<0>>} :
        /\ zop' = "construct"
        /\ zin' = [amplifier |-> amplifier, noise_factors |-> noise_factors,
                   extrapolator |-> extrapolator,
                   extrapolated_noise_factors |-> extrapolated]
        /\ zres' = ZneOptionsConstruct(amplifier, noise_factors, extrapolator, extrapolated)
        /\ OnlyZne

NextZne ==
    \/ ZneOptionsModel

(***************************************************************************)
(* Several program items validated at once (executor v0.2).  Each item     *)
(* holds its own envelope instances; the steps of the items'               *)
(* cross_validate methods interleave.                                      *)
(***************************************************************************)
ItemIds == {1, 2}

\* A variant of EnvelopeOf in which every item holds the envelopes of item 1.
EnvelopeShared(i) == 1

\* self.circuit / self.samplex of item i: the item's own envelope instances.
EnvelopeOf(i) == i

\* The circuit envelopes of the items: from wire fields (slot empty,
\* decodable or not) or from from_quantum_circuit (slot populated).
FanCircuits ==
    {QpyEnvelope("QpyModelV13ToV17", EnvelopeText(TRUE, FALSE, TRUE, 17, 1, p, l),
                 17, "ok", EmptySlot) : p \in CacheParams, l \in BOOLEAN}
    \cup {FromQuantumCircuit("QpyModelV13ToV17", p, 17) : p \in CacheParams}

\* The samplex envelopes of the items, likewise.
FanSamplexes ==
    LET Outputs == {<<FALSE, 0>>, <<TRUE, MaxParams>>}
    IN {SamplexEnvelope("SamplexModelSSV1ToSSV2", SamplexText(1, l, o[1], o[2]),
                        1, "ok", EmptySlot) : o \in Outputs, l \in BOOLEAN}
       \cup {FromSamplex("SamplexModelSSV1ToSSV2", o[1], o[2], 1) : o \in Outputs}

\* An item to validate: its type, the shape of its circuit_arguments and
\* its envelopes.
FanConfigs ==
    {[item_type |-> "circuit", shape |-> s, circuit |-> c, samplex |-> NoSamplexEnvelope] :
        s \in {<<>>, <<MaxParams>>}, c \in FanCircuits}
    \cup {[item_type |-> "samplex", shape |-> <<>>, circuit |-> c, samplex |-> s] :
        c \in FanCircuits, s \in FanSamplexes}

\* The position of an item's cross_validate, its local values and its outcome.
Validation(pc) ==
    [pc |-> pc, tmp |-> EmptySlot, circuit |-> EmptySlot, samplex |-> EmptySlot,
     status |-> "none"]

NoFanItem == [item_type |-> "none", shape |-> <<>>]
NoEnvelopes == [circuit |-> NoQpyEnvelope, samplex |-> NoSamplexEnvelope]

\* The envelope a step of item i works on, and the same with its slot set.
Slot(envs, i, pc) ==
    IF pc \in {"c_test", "c_load", "c_store", "c_return"}
    THEN envs[EnvelopeOf(i)].circuit.cache
    ELSE envs[EnvelopeOf(i)].samplex.cache

WithSlot(envs, i, pc, object) ==
    IF pc \in {"c_test", "c_load", "c_store", "c_return"}
    THEN [envs EXCEPT ![EnvelopeOf(i)].circuit.cache = object]
    ELSE [envs EXCEPT ![EnvelopeOf(i)].samplex.cache = object]

\* load(...)[0] / samplex_from_json(...) of the envelope's encoded value
FanDecode(envs, i, pc) ==
    IF pc = "c_load"
    THEN [ok |-> Load(envs[EnvelopeOf(i)].circuit.circuit_b64).ok,
          object |-> Load(envs[EnvelopeOf(i)].circuit.circuit_b64).circuit]
    ELSE [ok |-> envs[EnvelopeOf(i)].samplex.samplex_json.loadable,
          object |-> SamplexObject(envs[EnvelopeOf(i)].samplex.samplex_json.has_pv,
                                   envs[EnvelopeOf(i)].samplex.samplex_json.pv_last)]

\* The comparison that ends cross_validate: CircuitItemModel compares the
\* last axis of circuit_arguments, SamplexItemModel the last axis of the
\* "parameter_values" output (0 when there is none), with
\* circuit.num_parameters.
FanCompare(it, v) ==
    IF it.item_type = "circuit"
    THEN IF LastAxis(it.shape) /= v.circuit.num_parameters
         THEN "ParameterCountMismatch" ELSE "ok"
    ELSE IF (IF v.samplex.has_pv THEN v.samplex.pv_last ELSE 0) /= v.circuit.num_parameters
         THEN "ParameterCountMismatch" ELSE "ok"

OnlyFan == UNCHANGED <<tensorVars, envelopeVars, itemVars, programVars,
        cacheVars, samplexVars, f64Vars, zneVars>>

InitFan ==
    /\ vop = "init"
    /\ vitem = [i \in ItemIds |-> NoFanItem]
    /\ vin = [i \in ItemIds |-> NoEnvelopes]
    /\ venv = [i \in ItemIds |-> NoEnvelopes]
    /\ vrun = [i \in ItemIds |-> Validation("idle")]

\* The items are handed to their validators, all at once.
FanStart ==
    /\ vop = "init"
    /\ \E cfg \in [ItemIds -> FanConfigs] :
        /\ vop' = "run"
        /\ vitem' = [i \in ItemIds |->
                        [item_type |-> cfg[i].item_type, shape |-> cfg[i].shape]]
        /\ vin' = [i \in ItemIds |->
                        [circuit |-> cfg[i].circuit, samplex |-> cfg[i].samplex]]
        /\ venv' = [i \in ItemIds |->
                        [circuit |-> cfg[i].circuit, samplex |-> cfg[i].samplex]]
        /\ vrun' = [i \in ItemIds |-> Validation("c_test")]
        /\ OnlyFan

\* if not use_cached or not hasattr(self, "_circuit") (use_cached is True)
FanTest ==
    \E i \in ItemIds :
        /\ vrun[i].pc \in {"c_test", "s_test"}
        /\ vrun' = [vrun EXCEPT ![i].pc =
                      IF Condition(TRUE, IF Slot(venv, i, vrun[i].pc).set THEN 1 ELSE 0)
                      THEN (IF vrun[i].pc = "c_test" THEN "c_load" ELSE "s_load")
                      ELSE (IF vrun[i].pc = "c_test" THEN "c_return" ELSE "s_return")]
        /\ UNCHANGED <<vop, vitem, vin, venv>>
        /\ OnlyFan

\* the decoder runs: a new object, or its exception ends the validation
FanLoad ==
    \E i \in ItemIds :
        /\ vrun[i].pc \in {"c_load", "s_load"}
        /\ vrun' = [vrun EXCEPT ![i] =
                      IF FanDecode(venv, i, vrun[i].pc).ok
                      THEN [@ EXCEPT !.pc = (IF vrun[i].pc = "c_load" THEN "c_store"
                                             ELSE "s_store"),
                                     !.tmp = FanDecode(venv, i, vrun[i].pc).object]
                      ELSE [@ EXCEPT !.pc = "done", !.status = "LoadError"]]
        /\ UNCHANGED <<vop, vitem, vin, venv>>
        /\ OnlyFan

\* self._circuit = ... / self._samplex = ...
FanStore ==
    \E i \in ItemIds :
        /\ vrun[i].pc \in {"c_store", "s_store"}
        /\ venv' = WithSlot(venv, i, vrun[i].pc, vrun[i].tmp)
        /\ vrun' = [vrun EXCEPT ![i].pc =
                      IF vrun[i].pc = "c_store" THEN "c_return" ELSE "s_return"]
        /\ UNCHANGED <<vop, vitem, vin>>
        /\ OnlyFan

\* return self._circuit / return self._samplex, back in cross_validate
FanReturn ==
    \E i \in ItemIds :
        /\ vrun[i].pc \in {"c_return", "s_return"}
        /\ vrun' = [vrun EXCEPT ![i] =
                      IF vrun[i].pc = "c_return"
                      THEN [@ EXCEPT !.circuit = Slot(venv, i, "c_return"),
                                     !.pc = IF vitem[i].item_type = "circuit"
                                            THEN "compare" ELSE "s_test"]
                      ELSE [@ EXCEPT !.samplex = Slot(venv, i, "s_return"),
                                     !.pc = "compare"]]
        /\ UNCHANGED <<vop, vitem, vin, venv>>
        /\ OnlyFan

\* the comparison of the parameter counts, and the end of cross_validate
FanFinish ==
    \E i \in ItemIds :
        /\ vrun[i].pc = "compare"
        /\ vrun' = [vrun EXCEPT ![i].pc = "done",
                                ![i].status = FanCompare(vitem[i], vrun[i])]
        /\ UNCHANGED <<vop, vitem, vin, venv>>
        /\ OnlyFan

NextFan ==
    \/ FanStart
    \/ FanTest
    \/ FanLoad
    \/ FanStore
    \/ FanReturn
    \/ FanFinish

Init ==
    /\ InitTensor /\ InitEnvelope /\ InitItem /\ InitProgram
    /\ InitCache /\ InitSamplex
    /\ InitF64
    /\ InitZne
    /\ InitFan

SpecTensor == Init /\ [][NextTensor]_vars
SpecEnvelope == Init /\ [][NextEnvelope]_vars
SpecItem == Init /\ [][NextItem]_vars
SpecProgram == Init /\ [][NextProgram]_vars
SpecCache == Init /\ [][NextCache]_vars
SpecCacheRace == Init /\ [][NextCacheRace]_vars
SpecSamplex == Init /\ [][NextSamplex]_vars
SpecF64 == Init /\ [][NextF64]_vars
SpecZne == Init /\ [][NextZne]_vars
SpecFan == Init /\ [][NextFan]_vars

(***************************************************************************)
(* TensorModel: the claims.                                                *)
(***************************************************************************)
\* The bytes a tensor of this shape and dtype holds: 8 per f64, 1 per u8,
\* one bit per bool, rounded up to whole bytes.
ClaimedBytes(shape, dtype) ==
    CASE dtype = "f64" -> 8 * Prod(shape)
      [] dtype = "u8" -> Prod(shape)
      [] dtype = "bool" -> CeilDiv(Prod(shape), 8)

\* The base64 payload, where it decodes at all, decodes to exactly the bytes
\* the shape and dtype ask for.
SizesAgree(t) ==
    B64Decode(t.data).ok => Len(B64Decode(t.data).bytes) = ClaimedBytes(t.shape, t.dtype)

NonNegative(shape) == \A k \in 1..Len(shape) : shape[k] >= 0

\* C1: every constructed TensorModel has a payload whose decoded byte length
\* is ceil(product(shape) * bytes_per_element(dtype)), with 8, 1 and 1/8
\* bytes per element; construction fails whenever the two differ.  (Stated
\* for the shapes the data model allows, of non-negative entries, and for
\* payloads that decode: a violation here is a violation of the claim.)
C1_SizeInvariant ==
    (res = "ok" /\ op \in {"wire", "numpy", "truncate"} /\ NonNegative(tm.shape))
        => SizesAgree(tm)

\* C2: for every array of dtype float64, uint8 or bool, of rank 0 to 4,
\* arrays of zero elements included, from_numpy constructs a record, and
\* to_numpy on it returns the array: same shape, same elements in order.
C2_RoundTrip ==
    (op = "numpy" /\ arr.dtype \in Dtypes) =>
        /\ res = "ok"
        /\ (out.status /= "none") =>
              /\ out.status = "ok"
              /\ out.dtype = arr.dtype
              /\ out.shape = arr.shape
              /\ out.flat = arr.flat

\* A float64 array of rank 4 with two elements has made the round trip.
C2_Witness ==
    /\ op = "numpy"
    /\ arr.dtype = "f64"
    /\ Len(arr.shape) = 4
    /\ Len(arr.flat) = 2
    /\ arr.flat[1] /= arr.flat[2]
    /\ out.status = "ok"
    /\ out.flat = arr.flat

\* Text as b64encode writes it: whole groups of four characters of the
\* alphabet, the last group ending in at most two '='.
IsCanonical(data) ==
    /\ Len(data) % 4 = 0
    /\ \A i \in 1..Len(data) : data[i] <= PadCh
    /\ \A i \in 1..Len(data) : (data[i] = PadCh) => i > Len(data) - 2
    /\ (Len(data) > 0 /\ data[Len(data)] /= PadCh) => data[Len(data) - 1] /= PadCh

\* The record's payload decodes to the bytes its shape and dtype ask for.
IsValidRecord(t) ==
    /\ NonNegative(t.shape)
    /\ B64Decode(t.data).ok
    /\ Len(B64Decode(t.data).bytes) = ClaimedBytes(t.shape, t.dtype)

\* C3 as stated: for every valid TensorModel with non-empty data, removing
\* the last character of data and constructing a record with the same shape
\* and dtype fails the size check.
C3_TruncationOfAnyValidRecord ==
    (op = "truncate" /\ IsValidRecord(prev)) => res = "MalformedTensor"

\* C3, amended: for every constructed TensorModel whose non-empty data is
\* canonical base64 (whole four-character groups of the alphabet, '=' only
\* as the final padding), any dtype and shape, zero, one or two '=' at the
\* end, the record with the last character of data removed fails the size
\* check.
C3_TruncationRejected ==
    (op = "truncate" /\ IsCanonical(prev.data)) => res = "MalformedTensor"

\* A float64 record whose text ends in one '=' was truncated and rejected.
C3_Witness ==
    /\ op = "truncate"
    /\ IsCanonical(prev.data)
    /\ prev.dtype = "f64"
    /\ PadCount(prev.data) = 1
    /\ Len(tm.data) = Len(prev.data) - 1
    /\ res = "MalformedTensor"

(***************************************************************************)
(* Circuit envelopes: the claims.                                          *)
(***************************************************************************)
\* The header of the payload, where the text decodes and holds one.
HasHeader(e) ==
    /\ e.value.b64ok
    /\ e.value.readable
    /\ (e.cls \in TypedClasses) => e.value.zipped

\* The inclusive version range a bounded class is said to allow.
ClaimedLow(cls) == IF cls = "QpyModel" THEN 10 ELSE 13
ClaimedHigh(cls) ==
    CASE cls = "QpyModelV13ToV16" -> 16
      [] cls = "QpyModelV13ToV17" -> 17
      [] cls = "TypedQpyCircuitModelV13to17" -> 17
      [] cls = "CircuitQpyModelV13to14" -> 14
      [] cls = "QpyModel" -> 18 + VersionMargin
InClaimedRange(cls, v) == ClaimedLow(cls) <= v /\ v <= ClaimedHigh(cls)

\* C4: every constructed QpyModelV13ToV16 (QpyModelV13ToV17) has a
\* qpy_version in 13..16 (13..17) equal to the payload header's version; a
\* payload whose header declares a version outside the range is rejected for
\* every declared qpy_version, and a single-program payload whose header
\* version is in the range and equals the declared field is accepted.
C4_VersionGate ==
    (eop = "qpy" /\ ein.cls \in {"QpyModelV13ToV16", "QpyModelV13ToV17"}) =>
        /\ (eres = "ok") =>
              /\ InClaimedRange(ein.cls, ein.qpy_version)
              /\ HasHeader(ein)
              /\ ein.value.version = ein.qpy_version
        /\ (HasHeader(ein) /\ ~InClaimedRange(ein.cls, ein.value.version)) => eres /= "ok"
        /\ (/\ HasHeader(ein)
            /\ InClaimedRange(ein.cls, ein.value.version)
            /\ ein.value.version = ein.qpy_version
            /\ ein.value.num_programs = 1) => eres = "ok"

\* A QpyModelV13ToV16 from a version-17 payload declared as version 17 is
\* rejected by the field's range.
C4_Witness ==
    /\ eop = "qpy"
    /\ ein.cls = "QpyModelV13ToV16"
    /\ HasHeader(ein)
    /\ ein.value.version = 17
    /\ ein.qpy_version = 17
    /\ ein.value.num_programs = 1
    /\ eres = "FieldRange"

\* C5: for a tag-variant envelope whose __value__ decodes and decompresses to
\* a payload with a readable header, construction succeeds exactly when the
\* header version is in 13..17 (13..14 for CircuitQpyModelV13to14), bounds
\* included, and the header's program count is 1.
C5_TypedAcceptsExactly ==
    (eop = "typed" /\ ein.type_ = "QuantumCircuit" /\ HasHeader(ein)) =>
        (eres = "ok" <=>
            (InClaimedRange(ein.cls, ein.value.version) /\ ein.value.num_programs = 1))

\* A TypedQpyCircuitModelV13to17 of header version 17 was accepted.
C5_Witness ==
    /\ eop = "typed"
    /\ ein.cls = "TypedQpyCircuitModelV13to17"
    /\ ein.type_ = "QuantumCircuit"
    /\ HasHeader(ein)
    /\ ein.value.version = 17
    /\ ein.value.num_programs = 1
    /\ eres = "ok"

\* The version check of the class passes: the declared field is in range and
\* equals the header's version (explicit-version classes), or the header's
\* version is in range (tag-variant classes).
VersionCheckPasses(e) ==
    IF e.cls \in QpyClasses
    THEN (IF e.cls = "QpyModel" THEN e.qpy_version >= 10
                                ELSE InClaimedRange(e.cls, e.qpy_version))
         /\ e.value.version = e.qpy_version
    ELSE InClaimedRange(e.cls, e.value.version)

TagOk(e) == (e.cls \in TypedClasses) => e.type_ = "QuantumCircuit"

\* C6 as stated: a payload whose header declares program_count = 2 fails
\* with the UnexpectedProgramCount error, whatever the header version.
C6_ProgramCountErrorAlways ==
    (eop \in {"qpy", "typed"} /\ TagOk(ein) /\ HasHeader(ein) /\ ein.value.num_programs = 2)
        => eres = "UnexpectedProgramCount"

\* C6, amended: a payload whose header declares program_count = 2 is
\* rejected whatever the header version; the error is UnexpectedProgramCount
\* exactly when the version check passes, and otherwise it is the version
\* error, which is raised first.
C6_ProgramCountRejected ==
    (eop \in {"qpy", "typed"} /\ TagOk(ein) /\ HasHeader(ein) /\ ein.value.num_programs = 2)
        => /\ eres /= "ok"
           /\ eres = "UnexpectedProgramCount" <=> VersionCheckPasses(ein)
           /\ ~VersionCheckPasses(ein) =>
                 eres \in {"FieldRange", "VersionMismatch", "VersionOutOfRange"}

\* A two-program payload of a matching in-range version was rejected for its
\* program count.
C6_Witness ==
    /\ eop = "qpy"
    /\ ein.cls = "QpyModelV13ToV17"
    /\ HasHeader(ein)
    /\ ein.value.version = 15
    /\ ein.qpy_version = 15
    /\ ein.value.num_programs = 2
    /\ eres = "UnexpectedProgramCount"

\* C7: an explicit-version envelope (QpyModel and its bounded variants) whose
\* declared qpy_version differs from the version in the payload header is
\* rejected, also when both lie in the allowed range.
C7_MismatchRejected ==
    (eop = "qpy" /\ HasHeader(ein) /\ ein.value.version /= ein.qpy_version) => eres /= "ok"

\* Header version 14 and declared version 15, both allowed, single program.
C7_Witness ==
    /\ eop = "qpy"
    /\ ein.cls = "QpyModelV13ToV16"
    /\ HasHeader(ein)
    /\ ein.value.version = 14
    /\ ein.qpy_version = 15
    /\ ein.value.num_programs = 1
    /\ eres = "VersionMismatch"
(***************************************************************************)
(* Executor program items and programs: the claims.                        *)
(***************************************************************************)
\* The fields handed to the circuit item are valid by themselves and the
\* circuit can be decoded, so that the outcome is the cross-field check's.
CircuitItemFieldsValid ==
    /\ iop = "circuit_item"
    /\ qenv.status = "ok"
    /\ qenv.circuit_b64.loadable
    /\ item.circuit_arguments.dtype = "f64"
    /\ CheckSizes(item.circuit_arguments.data, item.circuit_arguments.shape, "f64") = "ok"
    /\ IF item.schema = "v0.1" THEN item.chunk_size.kind = "int" /\ item.chunk_size.n >= 1
       ELSE item.chunk_size.kind = "auto" \/ item.chunk_size.n >= 1

\* n: the last entry of circuit_arguments.shape, or 0 when the shape is empty.
TrailingDim ==
    IF item.circuit_arguments.shape = <<>> THEN 0
    ELSE item.circuit_arguments.shape[Len(item.circuit_arguments.shape)]

\* C8: construction of a CircuitItemModel (v0.1 and v0.2) from valid fields
\* succeeds if and only if the last entry of circuit_arguments.shape (0 for
\* an empty shape) equals the decoded circuit's num_parameters; otherwise it
\* fails with the parameter-count error.
C8_CircuitItemIff ==
    CircuitItemFieldsValid =>
        /\ ires = "ok" <=> TrailingDim = qenv.circuit_b64.num_parameters
        /\ ires /= "ok" => ires = "ParameterCountMismatch"

\* A 3-parameter circuit is accepted with a two-axis tensor whose last axis is 3.
C8_Witness ==
    /\ CircuitItemFieldsValid
    /\ ires = "ok"
    /\ Len(item.circuit_arguments.shape) = 2
    /\ item.circuit_arguments.shape[1] /= 3
    /\ item.circuit_arguments.shape[2] = 3
    /\ qenv.circuit_b64.num_parameters = 3

\* The fields handed to the samplex item are valid by themselves and both
\* envelopes can be decoded.
SamplexItemFieldsValid ==
    /\ iop = "samplex_item"
    /\ qenv.status = "ok"
    /\ qenv.circuit_b64.loadable
    /\ senv.status = "ok"
    /\ senv.samplex_json.loadable
    /\ IF item.schema = "v0.1" THEN item.chunk_size.kind = "int" /\ item.chunk_size.n >= 1
       ELSE item.chunk_size.kind = "auto" \/ item.chunk_size.n >= 1

\* The outcome the samplex item validation is to have: "parameter_values"
\* absent counts as a trailing dimension of 0.
SamplexItemExpected ==
    LET num_output_params ==
            IF senv.samplex_json.has_pv THEN senv.samplex_json.pv_last ELSE 0
    IN  IF num_output_params = qenv.circuit_b64.num_parameters
        THEN "ok" ELSE "ParameterCountMismatch"

\* C9: in SamplexItemModel validation (v0.1 and v0.2), a samplex with no
\* output named "parameter_values" counts as trailing dimension 0:
\* construction succeeds for a circuit with 0 parameters and fails with the
\* parameter-count error otherwise; when the output exists, its last shape
\* entry must equal the circuit's parameter count.
C9_AbsentTreatedAsZero ==
    SamplexItemFieldsValid => ires = SamplexItemExpected

\* C9 as it stands for executor v0.2 alone.
C9_AbsentTreatedAsZeroV02 ==
    (SamplexItemFieldsValid /\ item.schema = "v0.2") => ires = SamplexItemExpected

\* A v0.2 samplex item without "parameter_values" and a 0-parameter circuit.
C9_WitnessV02 ==
    /\ SamplexItemFieldsValid
    /\ item.schema = "v0.2"
    /\ ~senv.samplex_json.has_pv
    /\ qenv.circuit_b64.num_parameters = 0
    /\ ires = "ok"

\* The fields handed to the v0.2 program are valid by themselves.
ProgramFieldsValid ==
    /\ pop = "program"
    /\ prog.schema = "v0.2"
    /\ prog.shots >= 1
    /\ \A i \in 1..Len(prog.items) :
        prog.items[i].chunk_size.kind = "auto" \/ prog.items[i].chunk_size.n >= 1

HasAuto == \E i \in 1..Len(prog.items) : prog.items[i].chunk_size.kind = "auto"
HasInteger == \E i \in 1..Len(prog.items) : prog.items[i].chunk_size.kind = "int"

\* C10: construction of a v0.2 QuantumProgramModel from valid fields fails
\* if and only if its items hold at least one chunk_size "auto" together
\* with at least one integer chunk_size; so in every constructed program the
\* chunk sizes are all "auto" or all integers.
C10_ChunkConsistency ==
    /\ ProgramFieldsValid => (pres /= "ok" <=> (HasAuto /\ HasInteger))
    /\ (pop = "program" /\ prog.schema = "v0.2" /\ pres = "ok") => ~(HasAuto /\ HasInteger)

\* A constructed program whose items have differing integer chunk sizes.
C10_Witness ==
    /\ ProgramFieldsValid
    /\ pres = "ok"
    /\ \E i, j \in 1..Len(prog.items) :
        /\ prog.items[i].chunk_size.kind = "int"
        /\ prog.items[j].chunk_size.kind = "int"
        /\ prog.items[i].chunk_size.n /= prog.items[j].chunk_size.n

(***************************************************************************)
(* The envelope and its cache slot: the claims.                            *)
(***************************************************************************)
\* The envelope was returned by from_quantum_circuit / from_samplex.
MadeFromObject == cenv.status = "ok" /\ cenv.origin /= 0

\* The call just completed is the first one after from_quantum_circuit /
\* from_samplex returned.
FirstCallAfterFromObject ==
    cop = "call" /\ clast.after = "from_object" /\ MadeFromObject

\* C11: immediately after from_quantum_circuit(c, v) / from_samplex(s, ssv)
\* returns an envelope, its slot holds the very object c (s); a call with
\* use_cached=True then returns that identical object and invokes no decoder.
C11_SlotHoldsOriginal ==
    /\ (cop = "from_object" /\ cenv.status = "ok") =>
            /\ cenv.slot = cenv.origin
            /\ cenv.origin \in 1..Len(heap)
            /\ decodes = 0
    /\ (FirstCallAfterFromObject /\ clast.arg = "true") =>
            /\ clast.status = "ok"
            /\ clast.ret = cenv.origin
            /\ ~clast.read
            /\ decodes = 0
            /\ Len(heap) = 1

C11_Witness ==
    /\ FirstCallAfterFromObject
    /\ clast.arg = "true"
    /\ clast.ret = cenv.origin
    /\ cenv.kind = "samplex"

\* C12: a call with use_cached true on a populated slot returns the cached
\* object and neither reads nor decodes the encoded value; every other call
\* decodes the encoded value into a new object, stores it in the slot and
\* returns it, so that a following use_cached=True call returns the object
\* of the most recent decode.
C12_CallContract ==
    [][cop' = "call" =>
        IF clast'.arg = "true" /\ cenv.slot /= 0
        THEN /\ clast'.status = "ok"
             /\ clast'.ret = cenv.slot
             /\ ~clast'.read
             /\ cenv' = cenv /\ heap' = heap /\ decodes' = decodes
             /\ (cop = "call" /\ clast.read /\ clast.status = "ok") => clast'.ret = clast.ret
        ELSE /\ clast'.read
             /\ decodes' = decodes + 1
             /\ cenv'.text = cenv.text
             /\ IF Decode(cenv.kind, cenv.text).ok
                THEN /\ clast'.status = "ok"
                     /\ clast'.ret \notin 1..Len(heap)
                     /\ clast'.ret \in 1..Len(heap')
                     /\ heap'[clast'.ret] = Decode(cenv.kind, cenv.text).object
                     /\ \A i \in 1..Len(heap) : heap'[i] = heap[i]
                     /\ cenv'.slot = clast'.ret
                ELSE clast'.status = "LoadError" /\ cenv' = cenv /\ heap' = heap
    ]_vars

\* A use_cached=True call that returned the object of an earlier decode.
C12_Witness ==
    /\ cop = "call"
    /\ clast.arg = "true"
    /\ ~clast.read
    /\ clast.after = "call"
    /\ decodes >= 1
    /\ clast.ret = Len(heap)
    /\ clast.ret /= cenv.origin

\* C13: concurrent callers of to_quantum_circuit / to_samplex on one envelope
\* that pass use_cached=False get independent decoded instances: under every
\* interleaving no two such calls return the same object.
C13_IndependentInstances ==
    \A t, u \in Callers :
        (/\ t /= u
         /\ calls[t].pc = "done" /\ ~calls[t].use_cached
         /\ calls[u].pc = "done" /\ ~calls[u].use_cached)
        => calls[t].ret /= calls[u].ret

\* C16: for every version v in the variant's range and every circuit c,
\* from_quantum_circuit(c, v) constructs, and to_quantum_circuit() with the
\* default use_cached then returns a circuit equal to c that was decoded from
\* the stored bytes and is not the cached original object.
C16_DefaultRoundTrip ==
    /\ (/\ cop = "from_object"
        /\ cenv.cls \in {"QpyModelV13ToV16", "QpyModelV13ToV17"}
        /\ cenv.version >= 13
        /\ cenv.version <= (IF cenv.cls = "QpyModelV13ToV16" THEN 16 ELSE 17))
       => cenv.status = "ok"
    /\ (FirstCallAfterFromObject /\ cenv.kind = "qpy" /\ clast.arg = "default") =>
            /\ clast.status = "ok"
            /\ clast.read
            /\ clast.ret /= cenv.origin
            /\ heap[clast.ret] = heap[cenv.origin]

C16_Witness ==
    /\ FirstCallAfterFromObject
    /\ clast.arg = "default"
    /\ cenv.cls = "QpyModelV13ToV17"
    /\ cenv.version = 17
    /\ heap[cenv.origin].num_parameters > 0
    /\ clast.ret /= cenv.origin

LocatedSsv == IntOf(ReSearch(sin.samplex_json).group)

\* C14: every constructed SamplexModel has a version token that the textual
\* key search locates in samplex_json, and the integer of the first located
\* token equals ssv; construction fails when no token is located and when the
\* located integer differs from ssv.
C14_TokenMatchesSsv ==
    /\ sres = "ok" => ReSearch(sin.samplex_json).found /\ LocatedSsv = sin.ssv
    /\ (sop = "wire" /\ ~ReSearch(sin.samplex_json).found) => sres \notin {"ok", "none"}
    /\ (sop = "wire" /\ ReSearch(sin.samplex_json).found /\ LocatedSsv /= sin.ssv)
            => sres \notin {"ok", "none"}

\* A constructed model whose text holds a second token with another version.
C14_Witness ==
    /\ sres = "ok"
    /\ \E i, j \in 1..Len(sin.samplex_json) :
        /\ i < j
        /\ MatchAt(sin.samplex_json, i) /= <<>>
        /\ MatchAt(sin.samplex_json, j) /= <<>>
        /\ IntOf(MatchAt(sin.samplex_json, i)) = sin.ssv
        /\ IntOf(MatchAt(sin.samplex_json, j)) /= sin.ssv

\* The declared version lies outside the range of the class.
SsvOutOfRange ==
    \/ sin.ssv < 1
    \/ sin.cls = "SamplexModelSSV1" /\ sin.ssv > 1
    \/ sin.cls = "SamplexModelSSV1ToSSV2" /\ sin.ssv > 2

\* C15: constructing a samplex envelope with an out-of-range version
\* (SamplexModelSSV1 with ssv = 2, SamplexModelSSV1ToSSV2 with ssv = 3, any
\* variant with ssv < 1) fails at the field range check, and the token-match
\* check is not run, whatever samplex_json contains.
C15_RangeBeforeToken ==
    (sop = "wire" /\ SsvOutOfRange) =>
        /\ sres = "FieldRange"
        /\ strace = <<"fields">>

\* SamplexModelSSV1 with ssv = 2 and a text whose token is 2.
C15_Witness ==
    /\ sop = "wire"
    /\ sin.cls = "SamplexModelSSV1"
    /\ sin.ssv = 2
    /\ ReSearch(sin.samplex_json).found
    /\ LocatedSsv = 2
    /\ sres = "FieldRange"

(***************************************************************************)
(* Claims about packed bool tensors, unsupported element types and         *)
(* repeated decoding.                                                      *)
(***************************************************************************)
\* Bit k (0 the least significant) of a byte.
BitOf(byte, k) == (byte \div 2 ^ k) % 2

\* The k-th (from 1) packed value of bytes, least-significant bit first.
PackedValue(bytes, k) == BitOf(bytes[((k - 1) \div 8) + 1], (k - 1) % 8)

\* The number of elements of the constructed record.
NumElems == Prod(tm.shape)

\* C17: a bool array of n elements, n not a multiple of 8, is packed by
\* from_numpy into ceil(n/8) bytes, value k in bit (k-1) mod 8 of byte
\* (k-1) div 8 counted from the least significant, the bits beyond the n-th
\* zero; to_numpy returns the n values in order; and to_numpy of any bool
\* record of n elements whose data decodes to ceil(n/8) bytes returns the
\* first n packed bits whatever the bits beyond the n-th are.
C17_BoolPacking ==
    /\ (op = "numpy" /\ arr.dtype = "bool" /\ Len(arr.flat) % 8 /= 0) =>
          /\ res = "ok"
          /\ LET bytes == B64Decode(tm.data).bytes
                 n == Len(arr.flat)
             IN /\ Len(bytes) = CeilDiv(n, 8)
                /\ \A k \in 1..n : PackedValue(bytes, k) = arr.flat[k]
                /\ \A k \in (n + 1)..(8 * Len(bytes)) : PackedValue(bytes, k) = 0
          /\ (out.status /= "none") =>
                (out.status = "ok" /\ out.shape = arr.shape /\ out.flat = arr.flat)
    /\ (op = "wire" /\ res = "ok" /\ tm.dtype = "bool" /\ Len(tm.shape) = 1
          /\ NumElems >= 1 /\ NumElems % 8 /= 0
          /\ B64Decode(tm.data).ok
          /\ Len(B64Decode(tm.data).bytes) = CeilDiv(NumElems, 8)
          /\ out.status /= "none") =>
          /\ out.status = "ok"
          /\ Len(out.flat) = NumElems
          /\ \A k \in 1..NumElems :
                out.flat[k] = PackedValue(B64Decode(tm.data).bytes, k)

\* A bool record of 9 elements whose second byte carries ones beyond the
\* 9th bit has been decoded.
C17_Witness ==
    /\ op = "wire"
    /\ tm.dtype = "bool"
    /\ tm.shape = <<MaxElemsBool>>
    /\ MaxElemsBool % 8 /= 0
    /\ \E k \in (MaxElemsBool + 1)..(8 * CeilDiv(MaxElemsBool, 8)) :
          PackedValue(B64Decode(tm.data).bytes, k) = 1
    /\ out.status = "ok"
    /\ Len(out.flat) = MaxElemsBool

\* C18 as stated: from_numpy on an array whose element type is none of
\* float64, uint8 and bool fails with the ValueError naming the dtype and
\* produces no record.
C18_UnsupportedDtypeIsValueError ==
    (op = "numpy" /\ arr.dtype \notin Dtypes) =>
        (res = "ValueError" /\ tm = NoTensor)

C21_F64Only ==
    /\ (fop = "numpy" /\ farr.dtype \in {"u8", "bool"}) => fres = "FieldType"
    /\ (fres = "ok") => ftm.dtype = "f64"

\* A bool array of more than eight elements has been refused.
C21_Witness ==
    /\ fop = "numpy"
    /\ farr.dtype = "bool"
    /\ Len(farr.flat) > 8
    /\ fres = "FieldType"

(***************************************************************************)
(* TypedQpyCircuitModelV13to17 validation: the claims.                     *)
(***************************************************************************)
\* The outcomes that model_validate reports as a pydantic ValidationError:
\* the field errors, and the ValueError (binascii.Error included) of the
\* validator.  zlib.error and struct.error are no ValueError and leave
\* model_validate as they are.
ValidationErrors ==
    {"FieldType", "FieldRequired", "InvalidBase64", "VersionOutOfRange",
     "UnexpectedProgramCount"}

\* The text of __value__ is valid base64: the decoder accepts it and it
\* carries no character outside the alphabet.
ValidBase64(e) == e.has_value /\ e.value.b64ok /\ ~e.junk

\* C22 as stated: TypedQpyCircuitModelV13to17 yields an instance only when
\* __type__ is "QuantumCircuit" (given or defaulted), __value__ is present
\* and is valid base64 of a decompressible payload; a wrong __type__, a
\* missing __value__ and a __value__ that is not valid base64 are rejected
\* with a validation error; the stored value_ is the input __value__.
C22_TypedValidation ==
    (eop = "typed" /\ ein.cls = "TypedQpyCircuitModelV13to17") =>
        /\ einst.made =>
              /\ TypeDefault(ein.type_) = "QuantumCircuit"
              /\ ValidBase64(ein)
              /\ ein.value.zipped
              /\ einst.value_ = ein.value
              /\ einst.junk = ein.junk
        /\ (ein.type_ = "WrongType" \/ ~ValidBase64(ein)) =>
              (~einst.made /\ eres \in ValidationErrors)

\* The part of C22 that the code does keep: no instance without the type,
\* the value and a payload that decodes and decompresses; a wrong type, a
\* missing value and a text the decoder refuses end in a validation error;
\* the stored text is the input text.
C22_TypedValidationLenient ==
    (eop = "typed" /\ ein.cls = "TypedQpyCircuitModelV13to17") =>
        /\ einst.made <=> eres = "ok"
        /\ einst.made =>
              /\ TypeDefault(ein.type_) = "QuantumCircuit"
              /\ ein.has_value /\ ein.value.b64ok /\ ein.value.zipped
              /\ einst.value_ = ein.value
              /\ einst.junk = ein.junk
        /\ (ein.type_ = "WrongType" \/ ~ein.has_value \/ ~ein.value.b64ok) =>
              (~einst.made /\ eres \in ValidationErrors)

(***************************************************************************)
(* ZneOptionsModel: the claims.                                            *)
(***************************************************************************)
\* The degree k of polynomial_degree_k, 0 for the other extrapolators.
PolynomialDegree(e) ==
    CASE e = "polynomial_degree_1" -> 1 [] e = "polynomial_degree_2" -> 2
      [] e = "polynomial_degree_3" -> 3 [] e = "polynomial_degree_4" -> 4
      [] e = "polynomial_degree_5" -> 5 [] e = "polynomial_degree_6" -> 6
      [] e = "polynomial_degree_7" -> 7 [] OTHER -> 0

\* The number of noise factors the claim requires for an extrapolator.
ClaimedCount(e) ==
    CASE e = "linear" -> 2 [] e = "exponential" -> 2
      [] e = "double_exponential" -> 4 [] e = "fallback" -> 1
      [] OTHER -> PolynomialDegree(e) + 1

\* The extrapolators configured by the input, as a list.
Configured == zin.extrapolator.names

\* The noise factors after defaulting.
FactorsAfterDefaulting ==
    IF zin.noise_factors.given THEN zin.noise_factors.factors
    ELSE IF zin.amplifier = "pea" THEN <<2, 3, 4, 5, 6>> ELSE <<2, 6, 10>>

\* C23: a constructed ZneOptionsModel holds the noise factors after
\* defaulting, at least as many as each configured extrapolator requires;
\* and when the given factors are all >= 1 and some extrapolator requires
\* more than there are, construction fails naming the first such
\* extrapolator in list order.
C23_EnoughNoiseFactors ==
    (zop = "construct") =>
        /\ (zres.status = "ok") =>
              /\ zres.model.noise_factors.given
              /\ zres.model.noise_factors.factors = FactorsAfterDefaulting
              /\ \A k \in 1..Len(Configured) :
                    Len(zres.model.noise_factors.factors) >= ClaimedCount(Configured[k])
        /\ (zres.status /= "FieldValue") =>
              \A k \in 1..Len(Configured) :
                 (/\ Len(FactorsAfterDefaulting) < ClaimedCount(Configured[k])
                  /\ \A j \in 1..(k - 1) :
                        Len(FactorsAfterDefaulting) >= ClaimedCount(Configured[j]))
                 => (zres.status = "TooFewNoiseFactors" /\ zres.named = Configured[k])

\* Default factors of a non-pea amplifier (three of them), with "linear"
\* satisfied and "double_exponential" after it refused by name.
C23_Witness ==
    /\ zop = "construct"
    /\ ~zin.noise_factors.given
    /\ zin.amplifier /= "pea"
    /\ zin.extrapolator = ExtrapolatorList(<<"linear", "double_exponential">>)
    /\ zres.status = "TooFewNoiseFactors"
    /\ zres.named = "double_exponential"

(***************************************************************************)
(* Cache coherence, frame conditions and the decoder: the claims.          *)
(***************************************************************************)
\* What the stored encoded value of the envelope holds: the program a
\* decode of it yields.
StoredProgram ==
    IF cenv.kind = "qpy" THEN CircuitObject(cenv.text.qpy.num_parameters)
    ELSE SamplexObject(cenv.text.json.has_pv, cenv.text.json.pv_last)

\* The envelope as the circuit field of an item, its slot holding `cache`.
AsItemCircuit(cache) ==
    QpyEnvelope(cenv.cls, cenv.text.qpy, cenv.version, cenv.status, cache)

C25_ConstructedDecodes ==
    (res = "ok" /\ NonNegative(tm.shape)) =>
        /\ B64Decode(tm.data).ok
        /\ Len(B64Decode(tm.data).bytes) = (Len(tm.data) \div 4) * 3 - PadCount(tm.data)
        /\ (out.status /= "none") =>
              (out.status = "ok" /\ Len(out.flat) = Prod(tm.shape))

C27_OnlySlotChanges ==
    [][cop /= "init" =>
        /\ cenv'.text = cenv.text
        /\ cenv'.version = cenv.version
        /\ cenv'.cls = cenv.cls
        /\ cenv'.kind = cenv.kind
        /\ cenv'.status = cenv.status
        /\ cenv'.origin = cenv.origin
    ]_vars

\* An envelope from wire fields after a call that decoded, a call that
\* used the slot and a call that decoded again.
C27_Witness ==
    /\ cop = "call"
    /\ cenv.origin = 0
    /\ decodes = 2
    /\ Len(heap) = 2
    /\ clast.read
    /\ clast.arg = "false"
    /\ cenv.slot = 2
    /\ cenv.text /= NoText

\* What the fixed-size header of the envelope's payload says, and nothing
\* beyond it: the payload decodes from base64 (and decompresses, for the
\* tag variant), the header is readable, its version is in the range of the
\* class and equals the declared version where one is declared, and it
\* counts one program.
HeaderAccepts ==
    LET text == cenv.text.qpy
    IN /\ text.b64ok /\ text.readable /\ text.num_programs = 1
       /\ CASE cenv.cls = "QpyModel" -> text.version = cenv.version /\ text.version >= 10
            [] cenv.cls = "QpyModelV13ToV16" ->
                 text.version = cenv.version /\ text.version \in 13..16
            [] cenv.cls = "QpyModelV13ToV17" ->
                 text.version = cenv.version /\ text.version \in 13..17
            [] cenv.cls = "TypedQpyCircuitModelV13to17" ->
                 text.zipped /\ text.version \in 13..17

\* C28: a circuit envelope constructed from wire fields is accepted or
\* refused by its header alone, whether or not the full decoder could
\* decode the payload; the decoder has not been invoked and the slot is
\* empty; and the decoder is invoked by calls of to_quantum_circuit only.
C28_ConstructionNeverDecodes ==
    /\ [](( cop = "from_wire" /\ cenv.kind \in {"qpy", "typed"}) =>
            /\ (cenv.status = "ok" <=> HeaderAccepts)
            /\ decodes = 0
            /\ cenv.slot = 0
            /\ heap = <<>>)
    /\ [][(decodes' /= decodes \/ heap' /= heap \/ cenv'.slot /= cenv.slot)
            => (cop' \in {"call", "from_object"})]_vars
    /\ [][(decodes' /= decodes) => (cop' = "call" /\ clast'.read)]_vars

\* A QpyModel and a tag-variant envelope whose payload the full decoder
\* cannot decode were constructed from wire fields.
C28_Witness ==
    /\ cop = "from_wire"
    /\ cenv.kind = "typed"
    /\ cenv.status = "ok"
    /\ ~cenv.text.qpy.loadable
    /\ cenv.text.qpy.version = 17
    /\ decodes = 0

(***************************************************************************)
(* Items validated at once: the claims.                                    *)
(***************************************************************************)
\* What validating item i alone, from start to end, gives on the envelopes
\* it was handed: the outcome and both slots afterwards.
ValidatedAlone(i) ==
    IF vitem[i].item_type = "circuit"
    THEN LET made == CircuitItemCrossValidate(vin[i].circuit, [shape |-> vitem[i].shape])
         IN [status |-> made.status, cache |-> made.cache, scache |-> vin[i].samplex.cache]
    ELSE LET made == SamplexItemCrossValidate("v0.2", vin[i].circuit, vin[i].samplex)
         IN [status |-> made.status, cache |-> made.cache, scache |-> made.scache]

\* C29: when no two items share an envelope instance, then under every
\* interleaving of the validation steps an item that has ended has the
\* outcome, and its envelopes the slots, that validating it alone gives; the
\* encoded values are untouched.
C29_FanOutSafe ==
    \A i \in ItemIds :
        (vop = "run" /\ vrun[i].pc = "done") =>
            /\ vrun[i].status = ValidatedAlone(i).status
            /\ venv[i].circuit.cache = ValidatedAlone(i).cache
            /\ venv[i].samplex.cache = ValidatedAlone(i).scache
            /\ venv[i].circuit.circuit_b64 = vin[i].circuit.circuit_b64
            /\ venv[i].samplex.samplex_json = vin[i].samplex.samplex_json

\* Two items of different outcomes have both ended, the first a samplex item
\* that decoded both of its envelopes, the second refused.
C29_Witness ==
    /\ vop = "run"
    /\ \A i \in ItemIds : vrun[i].pc = "done"
    /\ vitem[1].item_type = "samplex"
    /\ ~vin[1].circuit.cache.set /\ ~vin[1].samplex.cache.set
    /\ venv[1].circuit.cache.set /\ venv[1].samplex.cache.set
    /\ vrun[1].status = "ok"
    /\ vrun[2].status = "ParameterCountMismatch"
    /\ vin[1].circuit.circuit_b64.num_parameters /= vin[2].circuit.circuit_b64.num_parameters

\* Only calls with use_cached=True have been made on an envelope whose slot
\* was empty at construction (one constructed from wire fields).
OnlyCachedCalls ==
    /\ cop = "from_wire"
    /\ \A t \in Callers : calls[t].pc /= "idle" => calls[t].use_cached

\* C30 as stated: on an envelope whose slot starts empty, under every
\* interleaving of concurrent calls with use_cached=True and none with
\* use_cached=False, the decoder is invoked at most once in total and all
\* calls return the same object.
C30_CachedCallsDecodeOnce ==
    OnlyCachedCalls =>
        /\ decodes <= 1
        /\ \A t, u \in Callers :
              (calls[t].pc = "done" /\ calls[u].pc = "done") => calls[t].ret = calls[u].ret

\* The part of C30 that holds under every interleaving: a populated slot is
\* never emptied again.
C30_SlotStaysPopulated ==
    [][cenv.slot /= 0 => cenv'.slot /= 0]_vars
====
